---- MODULE Spec2Model ----
(***************************************************************************)
(* Spreadsheet synchronisation engine of tyre-system/backend/app/excel:    *)
(* layout resolver (config.py, phone_config.py), identity mapper           *)
(* (mapper.py), document writer (writer.py, phone_writer.py), reader       *)
(* (reader.py) and the orchestrator (sync.py, routers/sync.py).            *)
(*                                                                         *)
(* Conventions.                                                            *)
(*  - A Python call that can raise is an operator returning a record with  *)
(*    a field "raised"; the caller propagates it as the code does.         *)
(*  - A cell is a record [k, v]: k = "none" (empty cell), "num" (a number  *)
(*    v) or "formula" (a spreadsheet formula, v identifies it).            *)
(*  - openpyxl's Worksheet.cell(row, column, value) assigns the cell only  *)
(*    when value is not None; with value=None it returns the cell as it    *)
(*    is.  WsCell models that call.                                        *)
(*  - openpyxl's Workbook.save writes the archive with the time of the     *)
(*    save in it (docProps/core.xml "modified" and the zip entry times);   *)
(*    a saved file is its sheets plus that stamp.                          *)
(***************************************************************************)
EXTENDS Integers, Sequences, FiniteSets, TLC

VARIABLES
    call,       \* the last call of a resolver or matcher function and its result
    sizeA,      \* a tyre size string, as a sequence of characters
    sizeB,      \* a spelling variant of sizeA
    kind,       \* the workbook: "tyre" or "phone" inventory, or "invoice"
    wb,         \* the workbook file on disk
    backups,    \* the files of the sibling backups directory, by timestamp
    now,        \* the clock, in seconds
    last,       \* the last writer operation: its arguments and its outcome
    nOps,       \* the number of writer operations run so far
    db,         \* the database rows an export endpoint reads
    syncLog     \* the sync_logs table: one entry per export request

pureVars == <<call, sizeA, sizeB>>
fileVars == <<kind, wb, backups, now, last, nOps, db, syncLog>>
vars == <<call, sizeA, sizeB, kind, wb, backups, now, last, nOps, db, syncLog>>

(***************************************************************************)
(* Bounds of the model.                                                    *)
(***************************************************************************)
\* days probed by the layout calls lie in (1 - DayMargin)..(31 + DayMargin)
DayMargin == 2

(***************************************************************************)
(* config.py: tyre inventory layout.                                       *)
(***************************************************************************)
FORMULA_COLUMNS == {7, 8, 9, 10, 11}

DATA_START_ROW == 2
DATA_END_ROW == 51

OLD_LAYOUT_MONTHS == {8, 9, 10}

NEW_LAYOUT ==
    [exchange_rate_row |-> 54, exchange_rate_col |-> 9,
     initial_stock_col |-> 13, added_stock_col |-> 14,
     daily_start_col |-> 15, daily_end_col |-> 45]

OLD_LAYOUT ==
    [exchange_rate_row |-> 2, exchange_rate_col |-> 13,
     initial_stock_col |-> 14, added_stock_col |-> 15,
     daily_start_col |-> 16, daily_end_col |-> 46]

\* a layout that puts the initial stock in column K, one of the formula columns
get_layout_shifted(month) ==
    IF month \in OLD_LAYOUT_MONTHS
    THEN [OLD_LAYOUT EXCEPT !.initial_stock_col = 11]
    ELSE NEW_LAYOUT

get_layout(month) ==
    IF month \in OLD_LAYOUT_MONTHS THEN OLD_LAYOUT ELSE NEW_LAYOUT

\* the result of a call that raised
Raised == [raised |-> TRUE, col |-> 0]

\* day + 1 instead of day - 1, and no lower limit on the day
day_to_col_off(layout, day) ==
    IF day <= 31
    THEN [raised |-> FALSE, col |-> layout.daily_start_col + day + 1]
    ELSE Raised

\* SheetLayout.day_to_col
day_to_col(layout, day) ==
    IF ~(1 <= day /\ day <= 31)
    THEN Raised
    ELSE [raised |-> FALSE, col |-> layout.daily_start_col + day - 1]

(***************************************************************************)
(* phone_config.py: phone inventory layout.                                *)
(***************************************************************************)
PHONE_FORMULA_COLUMNS == {5, 7, 8, 9, 10}

PHONE_DATA_START_ROW == 5
PHONE_DATA_MAX_ROW == 100

PHONE_INV_INITIAL_COL == 13
PHONE_INV_ADDED_COL == 14
PHONE_INV_DAILY_START_COL == 15
PHONE_INV_DAILY_END_COL == 45

phone_day_to_col(day) ==
    IF ~(1 <= day /\ day <= 31)
    THEN Raised
    ELSE [raised |-> FALSE, col |-> PHONE_INV_DAILY_START_COL + day - 1]

\* the columns phone_writer.py writes, in the shape of a SheetLayout
PhoneLayout ==
    [exchange_rate_row |-> 2, exchange_rate_col |-> 2,
     initial_stock_col |-> PHONE_INV_INITIAL_COL,
     added_stock_col |-> PHONE_INV_ADDED_COL,
     daily_start_col |-> PHONE_INV_DAILY_START_COL,
     daily_end_col |-> PHONE_INV_DAILY_END_COL]

\* the columns a layout lets the writer write
WritableCols(layout) ==
    {layout.initial_stock_col, layout.added_stock_col}
        \cup (layout.daily_start_col .. layout.daily_end_col)

(***************************************************************************)
(* Calls of the layout resolver, on every month and on days in and out of  *)
(* range.                                                                  *)
(***************************************************************************)
Months == 1 .. 12
ProbeDays == (1 - DayMargin) .. (31 + DayMargin)

NoCall ==
    [fn |-> "none", month |-> 0, day |-> 0, raised |-> FALSE, col |-> 0,
     layout |-> NEW_LAYOUT]

InitLayoutCalls == call = NoCall

CallGetLayout(m) ==
    /\ call' = [fn |-> "get_layout", month |-> m, day |-> 0,
                raised |-> FALSE, col |-> 0, layout |-> get_layout(m)]
    /\ UNCHANGED <<sizeA, sizeB>> /\ UNCHANGED fileVars

CallDayToCol(m, d) ==
    /\ LET layout == get_layout(m)
           r == day_to_col(layout, d)
       IN  call' = [fn |-> "day_to_col", month |-> m, day |-> d,
                    raised |-> r.raised, col |-> r.col, layout |-> layout]
    /\ UNCHANGED <<sizeA, sizeB>> /\ UNCHANGED fileVars

CallPhoneDayToCol(d) ==
    /\ LET r == phone_day_to_col(d)
       IN  call' = [fn |-> "phone_day_to_col", month |-> 0, day |-> d,
                    raised |-> r.raised, col |-> r.col, layout |-> PhoneLayout]
    /\ UNCHANGED <<sizeA, sizeB>> /\ UNCHANGED fileVars

NextLayout ==
    \/ \E m \in Months : CallGetLayout(m)
    \/ \E m \in Months, d \in ProbeDays : CallDayToCol(m, d)
    \/ \E d \in ProbeDays : CallPhoneDayToCol(d)

(***************************************************************************)
(* Claims about the layout resolver (under SpecLayout).                    *)
(***************************************************************************)

\* C8: for every month 1-12 the layout get_layout returns has its writable
\* columns (initial stock, added stock, daily_start_col..daily_end_col)
\* outside the formula columns {7,8,9,10,11}; the phone layout's writable
\* columns 13, 14 and 15-45 are outside {5,7,8,9,10}.
C8_WritableDisjointFromFormula ==
    /\ call.fn \in {"get_layout", "day_to_col"} =>
          /\ call.month \in Months
          /\ WritableCols(call.layout) \cap {7, 8, 9, 10, 11} = {}
          /\ WritableCols(call.layout) \cap FORMULA_COLUMNS = {}
    /\ call.fn = "phone_day_to_col" =>
          /\ WritableCols(call.layout) = {13, 14} \cup (15 .. 45)
          /\ WritableCols(call.layout) \cap PHONE_FORMULA_COLUMNS = {}

C8_Witness ==
    /\ call.fn = "get_layout"
    /\ call.month = 9
    /\ call.layout.initial_stock_col = 14

\* C9: a day outside 1-31 makes day_to_col and phone_day_to_col raise; for a
\* day in 1-31 the column is daily_start_col + day - 1, so day 1 is the first
\* and day 31 the last daily column, and distinct days get distinct columns.
C9_DayToCol ==
    call.fn \in {"day_to_col", "phone_day_to_col"} =>
        LET other(d) == IF call.fn = "day_to_col"
                        THEN day_to_col(call.layout, d)
                        ELSE phone_day_to_col(d)
        IN  IF call.day \in 1 .. 31
            THEN /\ ~call.raised
                 /\ call.col = call.layout.daily_start_col + call.day - 1
                 /\ call.day = 1 => call.col = call.layout.daily_start_col
                 /\ call.day = 31 => call.col = call.layout.daily_end_col
                 /\ \A d \in (1 .. 31) \ {call.day} :
                        /\ ~other(d).raised
                        /\ other(d).col # call.col
            ELSE call.raised

C9_Witness ==
    /\ call.fn = "day_to_col"
    /\ call.day = 32
    /\ call.raised

(***************************************************************************)
(* mapper.py: normalisation of identity attributes and the tyre index.     *)
(* A string is a sequence of one-character strings.                        *)
(***************************************************************************)
\* longest size string tried
MaxSizeLen == 3
\* how many characters the spelling variant may gain over MaxSizeLen
MaxGrowth == 2

Digits == {"5"}
SizeChars == {"5", "/", "r", "R", " "}

UpperCase == <<"A", "B", "C", "D", "E", "F", "G", "H", "I", "J", "K", "L", "M",
               "N", "O", "P", "Q", "R", "S", "T", "U", "V", "W", "X", "Y", "Z">>
LowerCase == <<"a", "b", "c", "d", "e", "f", "g", "h", "i", "j", "k", "l", "m",
               "n", "o", "p", "q", "r", "s", "t", "u", "v", "w", "x", "y", "z">>

\* str.lower on one character
Lower(c) ==
    IF \E i \in 1 .. 26 : UpperCase[i] = c
    THEN LowerCase[CHOOSE i \in 1 .. 26 : UpperCase[i] = c]
    ELSE c

\* str.lower
RECURSIVE StrLower(_)
StrLower(s) ==
    IF s = <<>> THEN <<>> ELSE <<Lower(Head(s))>> \o StrLower(Tail(s))

RECURSIVE LStrip(_)
LStrip(s) ==
    IF s # <<>> /\ Head(s) = " " THEN LStrip(Tail(s)) ELSE s

RECURSIVE RStrip(_)
RStrip(s) ==
    IF s # <<>> /\ s[Len(s)] = " "
    THEN RStrip(SubSeq(s, 1, Len(s) - 1))
    ELSE s

\* str.strip
StrStrip(s) == RStrip(LStrip(s))

\* str.replace(" ", "")
RECURSIVE RemoveSpaces(_)
RemoveSpaces(s) ==
    IF s = <<>> THEN <<>>
    ELSE IF Head(s) = " " THEN RemoveSpaces(Tail(s))
    ELSE <<Head(s)>> \o RemoveSpaces(Tail(s))

\* re.sub(r"(\d)(r)", r"\1/r", s): left to right, matches do not overlap
RECURSIVE SubDigitR(_)
SubDigitR(s) ==
    IF Len(s) < 2 THEN s
    ELSE IF Head(s) \in Digits /\ s[2] = "r"
         THEN <<Head(s), "/", "r">> \o SubDigitR(Tail(Tail(s)))
         ELSE <<Head(s)>> \o SubDigitR(Tail(s))

\* lowercases and removes spaces but inserts no separator
_normalize_size_plain(size) ==
    IF size = <<>> THEN <<>>
    ELSE RemoveSpaces(StrLower(StrStrip(size)))

_normalize_size(size) ==
    IF size = <<>> THEN <<>>
    ELSE SubDigitR(RemoveSpaces(StrLower(StrStrip(size))))

\* trims but keeps the letter case
_normalize_str_cased(value) ==
    IF value = <<>> THEN <<>>
    ELSE StrStrip(value)

_normalize_str(value) ==
    IF value = <<>> THEN <<>>
    ELSE StrLower(StrStrip(value))

\* phone_mapper._normalize
_normalize(value) ==
    IF value = <<>> THEN <<>>
    ELSE StrLower(StrStrip(value))

\* PhoneMapper._make_key: "|".join of the three normalised attributes
phone_make_key(brand, model, config) ==
    _normalize(brand) \o <<"|">> \o _normalize(model) \o <<"|">>
        \o _normalize(config)

\* TyreMapper._make_key: "|".join of the four normalised attributes
_make_key(size, type_, brand, pattern) ==
    _normalize_size(size) \o <<"|">> \o _normalize_str(type_) \o <<"|">>
        \o _normalize_str(brand) \o <<"|">> \o _normalize_str(pattern)

\* no row: Python's None as the result of a lookup
NoRow == 0

SetMin(S) == CHOOSE x \in S : \A y \in S : x <= y
SetMax(S) == CHOOSE x \in S : \A y \in S : y <= x

\* the index in which the first tyre of a key keeps its row
RECURSIVE BuildIndexKeepingFirst(_, _)
BuildIndexKeepingFirst(tyres, acc) ==
    IF tyres = <<>> THEN acc
    ELSE LET t == Head(tyres)
             key == _make_key(t.size, t.type, t.brand, t.pattern)
             norm == _normalize_size(t.size)
             index == [k \in DOMAIN acc.index \cup {key} |->
                          IF k \in DOMAIN acc.index THEN acc.index[k]
                          ELSE t.row]
             size_index == [n \in DOMAIN acc.size_index \cup {norm} |->
                          IF n = norm
                          THEN (IF norm \in DOMAIN acc.size_index
                                THEN acc.size_index[norm] ELSE <<>>) \o <<t>>
                          ELSE acc.size_index[n]]
         IN  BuildIndexKeepingFirst(Tail(tyres),
                        [index |-> index, size_index |-> size_index])

\* TyreMapper.__init__: the exact-key index (a later tyre with the same key
\* replaces the row stored for it) and, per normalised size, the tyres in
\* catalogue order
RECURSIVE BuildIndex(_, _)
BuildIndex(tyres, acc) ==
    IF tyres = <<>> THEN acc
    ELSE LET t == Head(tyres)
             key == _make_key(t.size, t.type, t.brand, t.pattern)
             norm == _normalize_size(t.size)
             index == [k \in DOMAIN acc.index \cup {key} |->
                          IF k = key THEN t.row ELSE acc.index[k]]
             size_index == [n \in DOMAIN acc.size_index \cup {norm} |->
                          IF n = norm
                          THEN (IF norm \in DOMAIN acc.size_index
                                THEN acc.size_index[norm] ELSE <<>>) \o <<t>>
                          ELSE acc.size_index[n]]
         IN  BuildIndex(Tail(tyres),
                        [index |-> index, size_index |-> size_index])

TyreMapper(tyres) ==
    BuildIndex(tyres, [index |-> <<>>, size_index |-> <<>>])

\* TyreMapper.match_tyre
match_tyre(mapper, size, type_, brand, pattern) ==
    LET key == _make_key(size, type_, brand, pattern)
    IN  IF key \in DOMAIN mapper.index THEN mapper.index[key] ELSE NoRow

\* the tyres of the size with the one registered last in front
match_tyre_by_size_newest_first(mapper, size) ==
    LET norm == _normalize_size(size)
        found == IF norm \in DOMAIN mapper.size_index
                 THEN mapper.size_index[norm] ELSE <<>>
    IN  [i \in 1 .. Len(found) |-> found[Len(found) + 1 - i]]

\* TyreMapper.match_tyre_by_size
match_tyre_by_size(mapper, size) ==
    LET norm == _normalize_size(size)
    IN  IF norm \in DOMAIN mapper.size_index
        THEN mapper.size_index[norm] ELSE <<>>

\* "for tyre in candidates: if <test>: return tyre['row']", hits being the
\* positions that pass the test; None when the loop ends
FirstRow(candidates, hits) ==
    IF hits = {} THEN NoRow ELSE candidates[SetMin(hits)].row

\* TyreMapper.match_tyre_by_size_and_type
match_tyre_by_size_and_type(mapper, size, type_) ==
    LET candidates == match_tyre_by_size(mapper, size)
        norm_type == _normalize_str(type_)
    IN  FirstRow(candidates,
                 {i \in 1 .. Len(candidates) :
                     _normalize_str(candidates[i].type) = norm_type})

\* the exact key, then the first tyre of the size
match_tyre_fuzzy_size_first(mapper, size, type_, brand, pattern) ==
    LET exact == match_tyre(mapper, size, type_, brand, pattern)
        candidates == match_tyre_by_size(mapper, size)
    IN  IF exact # NoRow THEN exact
        ELSE FirstRow(candidates, 1 .. Len(candidates))

\* TyreMapper.match_tyre_fuzzy
match_tyre_fuzzy(mapper, size, type_, brand, pattern) ==
    LET exact == match_tyre(mapper, size, type_, brand, pattern)
        candidates == match_tyre_by_size(mapper, size)
        norm_type == _normalize_str(type_)
        norm_brand == _normalize_str(brand)
        by_brand == FirstRow(candidates,
                        {i \in 1 .. Len(candidates) :
                            /\ _normalize_str(candidates[i].type) = norm_type
                            /\ _normalize_str(candidates[i].brand) = norm_brand})
        result == match_tyre_by_size_and_type(mapper, size, type_)
    IN  IF exact # NoRow THEN exact
        ELSE IF by_brand # NoRow THEN by_brand
        ELSE IF result # NoRow THEN result
        ELSE FirstRow(candidates, 1 .. Len(candidates))

\* PhoneMapper.__init__: the exact-key index and, per brand|model, the
\* phones in catalogue order
RECURSIVE BuildPhoneIndex(_, _)
BuildPhoneIndex(phones, acc) ==
    IF phones = <<>> THEN acc
    ELSE LET ph == Head(phones)
             key == phone_make_key(ph.brand, ph.model, ph.config)
             bm_key == _normalize(ph.brand) \o <<"|">> \o _normalize(ph.model)
             index == [k \in DOMAIN acc.index \cup {key} |->
                          IF k = key THEN ph.row ELSE acc.index[k]]
             bm_index == [n \in DOMAIN acc.brand_model_index \cup {bm_key} |->
                          IF n = bm_key
                          THEN (IF bm_key \in DOMAIN acc.brand_model_index
                                THEN acc.brand_model_index[bm_key] ELSE <<>>)
                               \o <<ph>>
                          ELSE acc.brand_model_index[n]]
         IN  BuildPhoneIndex(Tail(phones),
                 [index |-> index, brand_model_index |-> bm_index])

PhoneMapper(phones) ==
    BuildPhoneIndex(phones, [index |-> <<>>, brand_model_index |-> <<>>])

\* PhoneMapper.match_phone
match_phone(mapper, brand, model, config) ==
    LET key == phone_make_key(brand, model, config)
    IN  IF key \in DOMAIN mapper.index THEN mapper.index[key] ELSE NoRow

\* the exact key only
match_phone_exact_only(mapper, brand, model, config) ==
    match_phone(mapper, brand, model, config)

\* PhoneMapper.match_phone_fuzzy
match_phone_fuzzy(mapper, brand, model, config) ==
    LET exact == match_phone(mapper, brand, model, config)
        bm_key == _normalize(brand) \o <<"|">> \o _normalize(model)
        candidates == IF bm_key \in DOMAIN mapper.brand_model_index
                      THEN mapper.brand_model_index[bm_key] ELSE <<>>
    IN  IF exact # NoRow THEN exact
        ELSE FirstRow(candidates, 1 .. Len(candidates))

(***************************************************************************)
(* Spelling variants of a size string: sizeB starts equal to sizeA and is  *)
(* changed one character at a time, by the letter case of R, by spaces,    *)
(* and by a "/" between a digit and the R that follows it.                 *)
(***************************************************************************)
RECURSIVE StringsUpTo(_)
StringsUpTo(n) ==
    IF n = 0 THEN {<<>>}
    ELSE LET shorter == StringsUpTo(n - 1)
         IN  shorter \cup {Append(s, c) : s \in shorter, c \in SizeChars}

InsertAt(s, i, c) == SubSeq(s, 1, i - 1) \o <<c>> \o SubSeq(s, i, Len(s))
RemoveAt(s, i) == SubSeq(s, 1, i - 1) \o SubSeq(s, i + 1, Len(s))

\* the nearest character before / after position i that is not a space
RECURSIVE PrevNonSpace(_, _)
PrevNonSpace(s, i) ==
    IF i <= 1 THEN ""
    ELSE IF s[i - 1] # " " THEN s[i - 1] ELSE PrevNonSpace(s, i - 1)

RECURSIVE NextNonSpace(_, _)
NextNonSpace(s, i) ==
    IF i >= Len(s) THEN ""
    ELSE IF s[i + 1] # " " THEN s[i + 1] ELSE NextNonSpace(s, i + 1)

CanGrow == Len(sizeB) < MaxSizeLen + MaxGrowth

InitSizes ==
    /\ sizeA \in StringsUpTo(MaxSizeLen)
    /\ sizeB = sizeA

ToggleCase(i) ==
    /\ sizeB[i] \in {"r", "R"}
    /\ sizeB' = [sizeB EXCEPT ![i] = IF @ = "r" THEN "R" ELSE "r"]
    /\ UNCHANGED <<sizeA, call>> /\ UNCHANGED fileVars

InsertSpace(i) ==
    /\ CanGrow
    /\ sizeB' = InsertAt(sizeB, i, " ")
    /\ UNCHANGED <<sizeA, call>> /\ UNCHANGED fileVars

RemoveSpace(i) ==
    /\ sizeB[i] = " "
    /\ sizeB' = RemoveAt(sizeB, i)
    /\ UNCHANGED <<sizeA, call>> /\ UNCHANGED fileVars

\* a "/" put right before an R whose preceding character is a digit
InsertSlash(i) ==
    /\ CanGrow
    /\ sizeB[i] \in {"r", "R"}
    /\ PrevNonSpace(sizeB, i) \in Digits
    /\ sizeB' = InsertAt(sizeB, i, "/")
    /\ UNCHANGED <<sizeA, call>> /\ UNCHANGED fileVars

\* the "/" between a digit and the R that follows it taken away
RemoveSlash(i) ==
    /\ sizeB[i] = "/"
    /\ PrevNonSpace(sizeB, i) \in Digits
    /\ NextNonSpace(sizeB, i) \in {"r", "R"}
    /\ sizeB' = RemoveAt(sizeB, i)
    /\ UNCHANGED <<sizeA, call>> /\ UNCHANGED fileVars

NextSizes ==
    \/ \E i \in 1 .. Len(sizeB) : ToggleCase(i)
    \/ \E i \in 1 .. Len(sizeB) + 1 : InsertSpace(i)
    \/ \E i \in 1 .. Len(sizeB) : RemoveSpace(i)
    \/ \E i \in 1 .. Len(sizeB) : InsertSlash(i)
    \/ \E i \in 1 .. Len(sizeB) : RemoveSlash(i)

\* the other identity attributes of the catalogue entry the sizes are tried on
SampleType == <<"N">>
SampleBrand == <<"n", " ">>
SampleRow == 7

\* a catalogue with one tyre of the given size
CatalogueOf(size) ==
    <<[row |-> SampleRow, size |-> size, type |-> SampleType,
       brand |-> SampleBrand, pattern |-> <<>>]>>

\* C10: size strings that differ only by a "/" between a digit and the R
\* after it, by letter case or by spaces normalise to the same key, and each
\* finds the catalogue entry registered under the other in the exact-key
\* index and in the size index.
C10_SizeVariantsSameKey ==
    LET mapper == TyreMapper(CatalogueOf(sizeA))
    IN  /\ _normalize_size(sizeA) = _normalize_size(sizeB)
        /\ _make_key(sizeA, SampleType, SampleBrand, <<>>)
               = _make_key(sizeB, SampleType, SampleBrand, <<>>)
        /\ match_tyre(mapper, sizeB, SampleType, SampleBrand, <<>>) = SampleRow
        /\ Len(match_tyre_by_size(mapper, sizeB)) = 1
        /\ match_tyre_by_size(mapper, sizeB)[1].row = SampleRow

\* 5/R5 against 5R5: the pair of the specification's example, shortened
C10_Witness ==
    /\ sizeA = <<"5", "/", "R">>
    /\ sizeB = <<"5", " ", "r">>

(***************************************************************************)
(* Normalisation of the other identity attributes, on the same pairs of    *)
(* spellings.                                                              *)
(***************************************************************************)
\* the characters of s that are no space, in order
NonSpace(s) == SelectSeq(s, LAMBDA c : c # " ")

\* equal up to the case of the letters
SameLetters(a, b) ==
    /\ Len(a) = Len(b)
    /\ \A i \in 1 .. Len(a) :
           \/ a[i] = b[i]
           \/ \E k \in 1 .. 26 : {a[i], b[i]} = {UpperCase[k], LowerCase[k]}

\* s is t with spaces before and after it
PaddingOf(s, t) ==
    \E i \in 0 .. Len(s) - Len(t) :
        /\ SubSeq(s, i + 1, i + Len(t)) = t
        /\ \A k \in (1 .. i) \cup (i + Len(t) + 1 .. Len(s)) : s[k] = " "

\* a and b differ only in letter case and in leading or trailing spaces
OnlyCaseAndPadding(a, b) ==
    \E i \in 1 .. Len(a) + 1, j \in 0 .. Len(a) :
        \E k \in 1 .. Len(b) + 1, l \in 0 .. Len(b) :
            /\ PaddingOf(a, SubSeq(a, i, j))
            /\ PaddingOf(b, SubSeq(b, k, l))
            /\ SameLetters(SubSeq(a, i, j), SubSeq(b, k, l))

\* a and b differ only in letter case and in spaces, wherever they are
OnlyCaseAndSpaces(a, b) == SameLetters(NonSpace(a), NonSpace(b))

\* the statement as the specification has it: spaces inside a value do not
\* tell two keys apart, whatever the attribute
C11_SpacesRemovedEverywhere ==
    OnlyCaseAndSpaces(sizeA, sizeB) =>
        /\ _normalize_str(sizeA) = _normalize_str(sizeB)
        /\ _normalize(sizeA) = _normalize(sizeB)

\* C11: two values that differ only in letter case and in leading or
\* trailing spaces normalise to the same string and give the same tyre key
\* as type, brand and pattern and the same phone key as brand, model and
\* config; two sizes that differ only in letter case and in spaces,
\* wherever they are, normalise to the same size.
C11_CaseAndPaddingSameKey ==
    /\ OnlyCaseAndPadding(sizeA, sizeB) =>
           /\ _normalize_str(sizeA) = _normalize_str(sizeB)
           /\ _normalize(sizeA) = _normalize(sizeB)
           /\ _make_key(<<"5">>, sizeA, sizeA, sizeA)
                  = _make_key(<<"5">>, sizeB, sizeB, sizeB)
           /\ phone_make_key(sizeA, sizeA, sizeA)
                  = phone_make_key(sizeB, sizeB, sizeB)
    /\ OnlyCaseAndSpaces(sizeA, sizeB) =>
           _normalize_size(sizeA) = _normalize_size(sizeB)

\* "Rr" against " rR ": the case of both letters and the padding differ
C11_Witness ==
    /\ sizeA = <<"R", "r">>
    /\ sizeB = <<" ", "r", "R", " ">>

(***************************************************************************)
(* The fuzzy matchers on an index built once: call holds the catalogue,    *)
(* the index built from it, the last query and its result.                 *)
(***************************************************************************)
\* longest catalogue
MaxTyres == 2
\* calls of a matcher on one index
MaxCalls == 2

\* a blank cell of the file reads as None, here the empty string
CatTypes == {<<>>, <<"N">>, <<"s">>}
CatBrands == {<<>>, <<"a">>}
CatPatterns == {<<>>, <<"p">>}
\* the tyres of size 5 in every type, brand and pattern, and one of size 5R
TyreAttrs ==
    [size : {<<"5">>}, type : CatTypes, brand : CatBrands,
     pattern : CatPatterns]
        \cup [size : {<<"5", "R">>}, type : {<<"N">>}, brand : {<<>>},
              pattern : {<<>>}]
PhoneAttrs ==
    [brand : {<<"a">>, <<"b">>}, model : {<<"N">>, <<"s">>},
     config : {<<>>, <<"p">>}]

\* the catalogues of up to n entries; entry i sits on row DATA_START_ROW + i - 1
RECURSIVE TyreCatalogues(_)
TyreCatalogues(n) ==
    IF n = 0 THEN {<<>>}
    ELSE LET shorter == TyreCatalogues(n - 1)
         IN  shorter \cup
             {Append(c, [row |-> DATA_START_ROW + Len(c), size |-> a.size,
                         type |-> a.type, brand |-> a.brand,
                         pattern |-> a.pattern]) :
                  c \in {x \in shorter : Len(x) = n - 1}, a \in TyreAttrs}

RECURSIVE PhoneCatalogues(_)
PhoneCatalogues(n) ==
    IF n = 0 THEN {<<>>}
    ELSE LET shorter == PhoneCatalogues(n - 1)
         IN  shorter \cup
             {Append(c, [row |-> PHONE_DATA_START_ROW + Len(c),
                         brand |-> a.brand, model |-> a.model,
                         config |-> a.config]) :
                  c \in {x \in shorter : Len(x) = n - 1}, a \in PhoneAttrs}

NoQuery ==
    [size |-> <<>>, type |-> <<>>, brand |-> <<>>, pattern |-> <<>>,
     model |-> <<>>, config |-> <<>>]
TyreQueries ==
    {[NoQuery EXCEPT !.size = sz, !.type = ty, !.brand = br, !.pattern = pa] :
        sz \in {<<"5">>, <<"5", "/", "r">>, <<"r">>},
        ty \in {<<>>, <<"n">>, <<"s">>},
        br \in {<<>>, <<"A">>},
        pa \in {<<>>, <<"p">>}}
PhoneQueries ==
    {[NoQuery EXCEPT !.brand = br, !.model = mo, !.config = co] :
        br \in {<<"A">>, <<"b">>},
        mo \in {<<>>, <<"n">>, <<"s">>},
        co \in {<<>>, <<"p">>, <<"q">>}}

InitMatchCalls ==
    call \in {[fn |-> "TyreMapper", tyres |-> c, mapper |-> TyreMapper(c),
               query |-> NoQuery, result |-> NoRow, first |-> NoRow,
               calls |-> 0] :
                  c \in TyreCatalogues(MaxTyres)}
             \cup {[fn |-> "PhoneMapper", tyres |-> c, mapper |-> PhoneMapper(c),
                    query |-> NoQuery, result |-> NoRow, first |-> NoRow,
                    calls |-> 0] :
                       c \in PhoneCatalogues(MaxTyres)}

\* the first call on the index
MatchTyreFuzzy(q) ==
    /\ call.fn = "TyreMapper"
    /\ LET row == match_tyre_fuzzy(call.mapper, q.size, q.type, q.brand,
                                   q.pattern)
       IN  call' = [call EXCEPT !.fn = "match_tyre_fuzzy", !.query = q,
                                !.result = row, !.first = row, !.calls = 1]
    /\ UNCHANGED <<sizeA, sizeB>> /\ UNCHANGED fileVars

MatchPhoneFuzzy(q) ==
    /\ call.fn = "PhoneMapper"
    /\ LET row == match_phone_fuzzy(call.mapper, q.brand, q.model, q.config)
       IN  call' = [call EXCEPT !.fn = "match_phone_fuzzy", !.query = q,
                                !.result = row, !.first = row, !.calls = 1]
    /\ UNCHANGED <<sizeA, sizeB>> /\ UNCHANGED fileVars

\* the same call once more on the same index
MatchAgain ==
    /\ call.fn \in {"match_tyre_fuzzy", "match_phone_fuzzy"}
    /\ call.calls < MaxCalls
    /\ LET q == call.query
           row == IF call.fn = "match_tyre_fuzzy"
                  THEN match_tyre_fuzzy(call.mapper, q.size, q.type, q.brand,
                                        q.pattern)
                  ELSE match_phone_fuzzy(call.mapper, q.brand, q.model,
                                         q.config)
       IN  call' = [call EXCEPT !.result = row, !.calls = @ + 1]
    /\ UNCHANGED <<sizeA, sizeB>> /\ UNCHANGED fileVars

NextMatch ==
    \/ \E q \in TyreQueries : MatchTyreFuzzy(q)
    \/ \E q \in PhoneQueries : MatchPhoneFuzzy(q)
    \/ MatchAgain

\* the catalogue positions a query reaches at each stage of the chain
SameSize(tyres, q) ==
    {i \in 1 .. Len(tyres) :
        _normalize_size(tyres[i].size) = _normalize_size(q.size)}
SameSizeType(tyres, q) ==
    {i \in SameSize(tyres, q) :
        _normalize_str(tyres[i].type) = _normalize_str(q.type)}
SameSizeTypeBrand(tyres, q) ==
    {i \in SameSizeType(tyres, q) :
        _normalize_str(tyres[i].brand) = _normalize_str(q.brand)}
SameAll(tyres, q) ==
    {i \in SameSizeTypeBrand(tyres, q) :
        _normalize_str(tyres[i].pattern) = _normalize_str(q.pattern)}
SameBrandModel(phones, q) ==
    {i \in 1 .. Len(phones) :
        /\ _normalize(phones[i].brand) = _normalize(q.brand)
        /\ _normalize(phones[i].model) = _normalize(q.model)}
SamePhone(phones, q) ==
    {i \in SameBrandModel(phones, q) :
        _normalize(phones[i].config) = _normalize(q.config)}

\* the row the chain is to return: of the exact key the entry registered
\* last, of every later stage the entry registered first
StagedRow(tyres, q) ==
    IF SameAll(tyres, q) # {} THEN tyres[SetMax(SameAll(tyres, q))].row
    ELSE IF SameSizeTypeBrand(tyres, q) # {}
         THEN tyres[SetMin(SameSizeTypeBrand(tyres, q))].row
    ELSE IF SameSizeType(tyres, q) # {}
         THEN tyres[SetMin(SameSizeType(tyres, q))].row
    ELSE IF SameSize(tyres, q) # {} THEN tyres[SetMin(SameSize(tyres, q))].row
    ELSE NoRow

StagedPhoneRow(phones, q) ==
    IF SamePhone(phones, q) # {} THEN phones[SetMax(SamePhone(phones, q))].row
    ELSE IF SameBrandModel(phones, q) # {}
         THEN phones[SetMin(SameBrandModel(phones, q))].row
    ELSE NoRow

\* C12: match_tyre_fuzzy returns the candidate of the first stage that has
\* one, in the order exact key, size + type + brand, size + type, size, and
\* no row only when no stage has one; match_phone_fuzzy does the same with
\* the exact key, then brand + model.
C12_FirstStageWins ==
    /\ call.fn = "match_tyre_fuzzy" =>
           call.result = StagedRow(call.tyres, call.query)
    /\ call.fn = "match_phone_fuzzy" =>
           call.result = StagedPhoneRow(call.tyres, call.query)

\* the size + type + brand stage answers with the second entry although the
\* first entry is the candidate of the size + type stage
C12_Witness ==
    /\ call.fn = "match_tyre_fuzzy"
    /\ SameAll(call.tyres, call.query) = {}
    /\ SameSizeTypeBrand(call.tyres, call.query) = {2}
    /\ SameSizeType(call.tyres, call.query) = {1, 2}
    /\ call.result = call.tyres[2].row

\* the query carries a size and nothing else
SizeOnly(q) == q.type = <<>> /\ q.brand = <<>> /\ q.pattern = <<>>

\* two entries of the size of the query, of different types
TwoOfOneSize(tyres, q) ==
    /\ Len(tyres) = 2
    /\ SameSize(tyres, q) = {1, 2}
    /\ _normalize_str(tyres[1].type) # _normalize_str(tyres[2].type)

FirstTypedWins ==
    (/\ call.fn = "match_tyre_fuzzy"
     /\ SizeOnly(call.query)
     /\ TwoOfOneSize(call.tyres, call.query)
     /\ \A i \in 1 .. 2 : _normalize_str(call.tyres[i].type) # <<>>)
        => call.result = call.tyres[1].row

MaxClock == 1
\* writer operations in one run
MaxOps == 2

INV_SIZE_COL == 1
PHONE_INV_BRAND_COL == 1
PHONE_INV_MODEL_COL == 2

\* the first row that lies in the data window of both product lines
ModelRows == {PHONE_DATA_START_ROW}
TrackedCols ==
    {1, 2} \cup (5 .. OLD_LAYOUT.daily_start_col)
           \cup {NEW_LAYOUT.daily_end_col, OLD_LAYOUT.daily_end_col}
ModelCells == ModelRows \X TrackedCols

\* month 1 holds the template sheet; month 8 has the old tyre layout
SampleMonths == {1, 8}
\* the first and the last day of a month, and a day that is no day
SampleDays == {1, 31, 32}
\* stock values and quantities handed to a write
Qtys == {0, 1}
Clock == 0 .. MaxClock

None == [k |-> "none", v |-> 0]
Num(n) == [k |-> "num", v |-> n]
Formula(c) == [k |-> "formula", v |-> c]
Str(s) == [k |-> "str", v |-> s]

\* "qty if qty else None", "sale['qty'] or None"
NumOrNone(q) == IF q = 0 THEN None ELSE Num(q)

get_sheet_name(month) == <<"Tyre List_", month>>
get_phone_sheet_name(month) == <<"", month>>
SheetNameOf(k, month) ==
    IF k = "tyre" THEN get_sheet_name(month) ELSE get_phone_sheet_name(month)

FormulaColsOf(k) ==
    IF k = "tyre" THEN FORMULA_COLUMNS ELSE PHONE_FORMULA_COLUMNS
LayoutOf(k, month) == IF k = "tyre" THEN get_layout(month) ELSE PhoneLayout
DataRowsOf(k) ==
    IF k = "tyre" THEN DATA_START_ROW .. DATA_END_ROW
    ELSE PHONE_DATA_START_ROW .. PHONE_DATA_MAX_ROW
DayToColOf(k, layout, day) ==
    IF k = "tyre" THEN day_to_col(layout, day) ELSE phone_day_to_col(day)

\* "name in wb.sheetnames"
HasSheet(file, name) == \E i \in 1 .. Len(file.names) : file.names[i] = name

\* ws.cell(row=row, column=col, value=value): openpyxl assigns the cell only
\* when value is not None
WsCell(ws, row, col, value) ==
    IF value = None THEN ws ELSE [ws EXCEPT ![<<row, col>>] = value]

\* writes whatever the column is
_safe_write_unguarded(ws, row, col, value) ==
    [raised |-> FALSE, ws |-> WsCell(ws, row, col, value)]

_safe_write(ws, row, col, value) ==
    IF col \in FORMULA_COLUMNS
    THEN [raised |-> TRUE, ws |-> ws]
    ELSE [raised |-> FALSE, ws |-> WsCell(ws, row, col, value)]

_phone_safe_write(ws, row, col, value) ==
    IF col \in PHONE_FORMULA_COLUMNS
    THEN [raised |-> TRUE, ws |-> ws]
    ELSE [raised |-> FALSE, ws |-> WsCell(ws, row, col, value)]

SafeWriteOf(k, ws, row, col, value) ==
    IF k = "tyre" THEN _safe_write(ws, row, col, value)
    ELSE _phone_safe_write(ws, row, col, value)

\* a run of protected writes [row, col, value] on one worksheet; the first
\* one that raises ends the run
RECURSIVE SafeWriteAll(_, _, _)
SafeWriteAll(k, ws, writes) ==
    IF writes = <<>> THEN [raised |-> FALSE, ws |-> ws]
    ELSE LET w == Head(writes)
             r == SafeWriteOf(k, ws, w.row, w.col, w.value)
         IN  IF r.raised THEN r ELSE SafeWriteAll(k, r.ws, Tail(writes))

\* _create_backup: shutil.copy2 of the file to backups/<stem>_<timestamp>,
\* replacing a backup of the same second
_create_backup(bk, file, t) == [bk EXCEPT ![t] = file]

\* the outcome of a writer operation that raised: nothing was saved
Failed(file) ==
    [raised |-> TRUE, saved |-> FALSE, created |-> FALSE, records |-> 0,
     file |-> file]

\* wb.save(path) at second t, then the return
Saved(names, sheets, t, created, records) ==
    [raised |-> FALSE, saved |-> TRUE, created |-> created,
     records |-> records,
     file |-> [names |-> names, sheets |-> sheets, stamp |-> t]]

\* the loops "ws.cell(row=row, column=col, value=None)" over the data rows and
\* the stock and daily columns of the layout
ClearRegion(ws, rows, layout) ==
    [rc \in DOMAIN ws |->
        IF rc[1] \in rows /\ rc[2] \in WritableCols(layout)
        THEN WsCell(ws, rc[1], rc[2], None)[rc]
        ELSE ws[rc]]

\* ensure_month_sheet saving the workbook also when the sheet is there
EnsureSheetResaving(k, file, month, t) ==
    LET target == SheetNameOf(k, month)
        first == SheetNameOf(k, 1)
    IN  IF HasSheet(file, target)
        THEN [raised |-> FALSE, saved |-> TRUE, created |-> FALSE,
              records |-> 0, file |-> [file EXCEPT !.stamp = t]]
        ELSE LET source == IF HasSheet(file, first) THEN first
                           ELSE file.names[1]
                 copy == file.sheets[source]
                 cleared == ClearRegion(copy, DataRowsOf(k), LayoutOf(k, month))
                 names == Append(file.names, target)
                 sheets == [n \in DOMAIN file.sheets \cup {target} |->
                               IF n = target THEN cleared ELSE file.sheets[n]]
             IN  Saved(names, sheets, t, TRUE, 0)

\* ExcelWriter.ensure_month_sheet / PhoneExcelWriter.ensure_month_sheet
EnsureSheet(k, file, month, t) ==
    LET target == SheetNameOf(k, month)
        first == SheetNameOf(k, 1)
    IN  IF HasSheet(file, target)
        THEN [raised |-> FALSE, saved |-> FALSE, created |-> FALSE,
              records |-> 0, file |-> file]
        ELSE LET source == IF HasSheet(file, first) THEN first
                           ELSE file.names[1]
                 copy == file.sheets[source]
                 cleared == ClearRegion(copy, DataRowsOf(k), LayoutOf(k, month))
                 names == Append(file.names, target)
                 sheets == [n \in DOMAIN file.sheets \cup {target} |->
                               IF n = target THEN cleared ELSE file.sheets[n]]
             IN  Saved(names, sheets, t, TRUE, 0)

ensure_month_sheet(file, month, t) == EnsureSheet("tyre", file, month, t)
phone_ensure_month_sheet(file, month, t) == EnsureSheet("phone", file, month, t)

\* the body the single-cell and per-day writes share: load, wb[sheet_name],
\* the protected writes, save; an exception leaves the file as it was
WritePath(k, file, name, writes, t) ==
    IF ~HasSheet(file, name) THEN Failed(file)
    ELSE LET r == SafeWriteAll(k, file.sheets[name], writes)
         IN  IF r.raised THEN Failed(file)
             ELSE Saved(file.names, [file.sheets EXCEPT ![name] = r.ws],
                        t, FALSE, 0)

\* ExcelWriter.write_daily_sales
write_daily_sales(file, month, day, sales, t) ==
    LET layout == get_layout(month)
        c == day_to_col(layout, day)
    IN  IF c.raised THEN Failed(file)
        ELSE WritePath("tyre", file, get_sheet_name(month),
                 [i \in 1 .. Len(sales) |->
                     [row |-> sales[i].row, col |-> c.col,
                      value |-> NumOrNone(sales[i].qty)]],
                 t)

\* writes the value into column I, a formula column, with ws.cell
write_initial_stock_raw(file, month, tyre_row, value, t) ==
    IF ~HasSheet(file, get_sheet_name(month)) THEN Failed(file)
    ELSE Saved(file.names,
               [file.sheets EXCEPT ![get_sheet_name(month)] =
                   WsCell(@, tyre_row, 9, Num(value))],
               t, FALSE, 0)

\* ExcelWriter.write_initial_stock
write_initial_stock(file, month, tyre_row, value, t) ==
    WritePath("tyre", file, get_sheet_name(month),
        <<[row |-> tyre_row, col |-> get_layout(month).initial_stock_col,
           value |-> Num(value)]>>, t)

\* ExcelWriter.write_added_stock
write_added_stock(file, month, tyre_row, value, t) ==
    WritePath("tyre", file, get_sheet_name(month),
        <<[row |-> tyre_row, col |-> get_layout(month).added_stock_col,
           value |-> Num(value)]>>, t)

\* "if init: _safe_write(...)", "if added: _safe_write(...)" for every entry
RECURSIVE StockWrites(_, _)
StockWrites(layout, stock_data) ==
    IF stock_data = <<>> THEN <<>>
    ELSE LET e == Head(stock_data)
         IN  (IF e.initial_stock # 0
              THEN <<[row |-> e.row, col |-> layout.initial_stock_col,
                      value |-> Num(e.initial_stock)]>>
              ELSE <<>>)
             \o (IF e.added_stock # 0
                 THEN <<[row |-> e.row, col |-> layout.added_stock_col,
                         value |-> Num(e.added_stock)]>>
                 ELSE <<>>)
             \o StockWrites(layout, Tail(stock_data))

\* "for day, sales in sorted(sales_by_day.items())": the column of the day,
\* then one protected write and one count per sale
RECURSIVE DailyWrites(_, _, _, _, _)
DailyWrites(k, layout, sales_by_day, days, st) ==
    IF days = {} \/ st.raised THEN st
    ELSE LET day == SetMin(days)
             c == DayToColOf(k, layout, day)
             sales == sales_by_day[day]
             r == SafeWriteAll(k, st.ws,
                      [i \in 1 .. Len(sales) |->
                          [row |-> sales[i].row, col |-> c.col,
                           value |-> NumOrNone(sales[i].qty)]])
         IN  IF c.raised \/ r.raised
             THEN [raised |-> TRUE, ws |-> st.ws, records |-> st.records]
             ELSE DailyWrites(k, layout, sales_by_day, days \ {day},
                      [raised |-> FALSE, ws |-> r.ws,
                       records |-> st.records + Len(sales)])

\* adds the exported value to the number the cell holds
RECURSIVE AddAll(_, _)
AddAll(ws, writes) ==
    IF writes = <<>> THEN ws
    ELSE LET w == Head(writes)
             old == ws[<<w.row, w.col>>]
             new == IF old.k = "num" /\ w.value.k = "num"
                    THEN Num(old.v + w.value.v) ELSE w.value
         IN  AddAll(WsCell(ws, w.row, w.col, new), Tail(writes))

ExportBatchAdding(k, file, month, stock_data, sales_by_day, t) ==
    LET name == SheetNameOf(k, month)
        layout == LayoutOf(k, month)
    IN  IF ~HasSheet(file, name) THEN Failed(file)
        ELSE Saved(file.names,
                   [file.sheets EXCEPT ![name] =
                       AddAll(@, StockWrites(layout, stock_data))],
                   t, FALSE, 0)

\* ExcelWriter.export_inventory_batch / PhoneExcelWriter.export_inventory_batch
ExportBatch(k, file, month, stock_data, sales_by_day, t) ==
    LET name == SheetNameOf(k, month)
        layout == LayoutOf(k, month)
    IN  IF ~HasSheet(file, name) THEN Failed(file)
        ELSE LET cleared == ClearRegion(file.sheets[name], DataRowsOf(k), layout)
                 s == SafeWriteAll(k, cleared, StockWrites(layout, stock_data))
                 d == DailyWrites(k, layout, sales_by_day, DOMAIN sales_by_day,
                          [raised |-> s.raised, ws |-> s.ws, records |-> 0])
             IN  IF d.raised THEN Failed(file)
                 ELSE Saved(file.names, [file.sheets EXCEPT ![name] = d.ws],
                            t, FALSE, d.records)

export_inventory_batch(file, month, stock_data, sales_by_day, t) ==
    ExportBatch("tyre", file, month, stock_data, sales_by_day, t)

phone_export_inventory_batch(file, month, stock_data, sales_by_day, t) ==
    ExportBatch("phone", file, month, stock_data, sales_by_day, t)

(***************************************************************************)
(* reader.py, phone_reader.py: read_inventory.                             *)
(***************************************************************************)
\* str(value) of a number
DecimalDigits == <<"0", "1", "2", "3", "4", "5", "6", "7", "8", "9">>
RECURSIVE NumStr(_)
NumStr(n) ==
    IF n < 10 THEN <<DecimalDigits[n + 1]>>
    ELSE Append(NumStr(n \div 10), DecimalDigits[(n % 10) + 1])

\* _to_str: None for an empty cell and for text that strips to nothing,
\* the stripped text of str(value) otherwise
_to_str(cell) ==
    IF cell.k = "str" THEN StrStrip(cell.v)
    ELSE IF cell.k = "num" THEN NumStr(cell.v)
    ELSE <<>>

\* _to_int with the default 0, on the cells a stock or day column can hold
_to_int(cell) == IF cell.k = "num" THEN cell.v ELSE 0

\* "sub in s"
Contains(s, sub) ==
    \E i \in 1 .. Len(s) - Len(sub) + 1 : SubSeq(s, i, i + Len(sub) - 1) = sub

TotalLabel == <<"t", "o", "t", "a", "l">>
TotalAvailableLabel ==
    <<"t", "o", "t", "a", "l", " ", "t", "y", "r", "e", " ",
      "a", "v", "a", "i", "l", "a", "b", "l", "e">>
GrandTotalLabel == <<"g", "r", "a", "n", "d", " ", "t", "o", "t", "a", "l">>
ReturnPolicyLabel ==
    <<"r", "e", "t", "u", "r", "n", " ", "p", "o", "l", "i", "c", "y">>

\* the cell of a sheet; a cell outside the followed ones is empty
CellOf(ws, row, col) ==
    IF <<row, col>> \in DOMAIN ws THEN ws[<<row, col>>] ELSE None

\* the day -> qty map of one row: the days whose cell converts to a quantity > 0
DailySalesOf(k, ws, layout, row) ==
    LET sold == {day \in 1 .. 31 :
                    _to_int(CellOf(ws, row, DayToColOf(k, layout, day).col)) > 0}
    IN  [day \in sold |->
            _to_int(CellOf(ws, row, DayToColOf(k, layout, day).col))]

\* the skip rule with the labels compared as written
SkipsRowCased(k, ws, row) ==
    IF k = "tyre"
    THEN LET size == _to_str(CellOf(ws, row, INV_SIZE_COL))
         IN  \/ size = <<>>
             \/ size \in {TotalLabel, TotalAvailableLabel}
    ELSE LET brand == _to_str(CellOf(ws, row, PHONE_INV_BRAND_COL))
             model == _to_str(CellOf(ws, row, PHONE_INV_MODEL_COL))
         IN  \/ brand = <<>> /\ model = <<>>
             \/ brand # <<>> /\ brand \in {TotalLabel, GrandTotalLabel}
             \/ brand # <<>> /\ Contains(brand, ReturnPolicyLabel)

\* whether read_inventory skips the row
SkipsRow(k, ws, row) ==
    IF k = "tyre"
    THEN LET size == _to_str(CellOf(ws, row, INV_SIZE_COL))
         IN  \/ size = <<>>
             \/ StrLower(size) \in {TotalLabel, TotalAvailableLabel}
    ELSE LET brand == _to_str(CellOf(ws, row, PHONE_INV_BRAND_COL))
             model == _to_str(CellOf(ws, row, PHONE_INV_MODEL_COL))
         IN  \/ brand = <<>> /\ model = <<>>
             \/ brand # <<>> /\ StrLower(brand) \in {TotalLabel, GrandTotalLabel}
             \/ brand # <<>> /\ Contains(StrLower(brand), ReturnPolicyLabel)

RECURSIVE ReadRows(_, _, _, _)
ReadRows(k, ws, layout, rows) ==
    IF rows = {} THEN <<>>
    ELSE LET row == SetMin(rows)
             rest == ReadRows(k, ws, layout, rows \ {row})
         IN  IF SkipsRow(k, ws, row) THEN rest
             ELSE <<[row |-> row,
                     size |-> IF k = "tyre"
                              THEN _to_str(CellOf(ws, row, INV_SIZE_COL))
                              ELSE <<>>,
                     brand |-> IF k = "phone"
                               THEN _to_str(CellOf(ws, row, PHONE_INV_BRAND_COL))
                               ELSE <<>>,
                     model |-> IF k = "phone"
                               THEN _to_str(CellOf(ws, row, PHONE_INV_MODEL_COL))
                               ELSE <<>>,
                     initial_stock |->
                         _to_int(CellOf(ws, row, layout.initial_stock_col)),
                     added_stock |->
                         _to_int(CellOf(ws, row, layout.added_stock_col)),
                     daily_sales |-> DailySalesOf(k, ws, layout, row)]>>
                  \o rest

\* the rows of which a sheet holds a cell; every other row is empty
FilledRows(ws) == {rc[1] : rc \in DOMAIN ws}

\* ExcelReader.read_inventory / PhoneExcelReader.read_inventory: the rows
\* of the data window; a row with no cell has a blank identity and is
\* passed over
ReadInventory(k, file, month) ==
    IF ~HasSheet(file, SheetNameOf(k, month))
    THEN [raised |-> TRUE, rows |-> <<>>]
    ELSE LET ws == file.sheets[SheetNameOf(k, month)]
         IN  [raised |-> FALSE,
              rows |-> ReadRows(k, ws, LayoutOf(k, month),
                                DataRowsOf(k) \cap FilledRows(ws))]

read_inventory(file, month) == ReadInventory("tyre", file, month)
phone_read_inventory(file, month) == ReadInventory("phone", file, month)

(***************************************************************************)
(* writer.py on the invoice workbook, sync.py: sync_to_invoice.            *)
(*                                                                         *)
(* A record sheet is the sequence of its rows below the header: entry i is *)
(* row i + 1 of the sheet, and ws.max_row is the length plus one.  A sale  *)
(* is [id, date], the date counted in days from 1900-01-01; the id stands  *)
(* for the brand, type, size, quantity, price, discount, payment method    *)
(* and customer, which every writer copies into the row as they are.       *)
(***************************************************************************)
INVOICE_SALES_SHEET == "Sales Record"
INVOICE_PAYMENTS_SHEET == "Payment Record"
INVOICE_OLD_CASH_SHEET == "Cash"

\* datetime.datetime(d.year, d.month, d.day)
DateTime(d) == [k |-> "datetime", v |-> d]
\* (d - datetime.date(1899, 12, 30)).days
ExcelSerial(d) == d + 2

\* ws.max_row
MaxRowOf(rows) == Len(rows) + 1

\* the rows "for i, sale in enumerate(sales): row = i + 2" writes
BatchSaleRows(sales) ==
    [i \in 1 .. Len(sales) |->
        [date |-> DateTime(sales[i].date), rec |-> sales[i].id,
         total |-> Formula(i + 1)]]

BatchPaymentRows(payments) ==
    [i \in 1 .. Len(payments) |->
        [date |-> DateTime(payments[i].date), rec |-> payments[i].id]]

\* keeps the rows the sheet holds and writes the records below them
export_invoice_batch_keeping(file, sales, payments, t) ==
    IF ~HasSheet(file, INVOICE_SALES_SHEET)
          \/ ~HasSheet(file, INVOICE_PAYMENTS_SHEET)
    THEN Failed(file)
    ELSE Saved(file.names,
               [file.sheets EXCEPT
                    ![INVOICE_SALES_SHEET] = @ \o BatchSaleRows(sales),
                    ![INVOICE_PAYMENTS_SHEET] = @ \o BatchPaymentRows(payments)],
               t, FALSE, Len(sales) + Len(payments))

\* ExcelWriter.export_invoice_batch: delete_rows(2, max_row - 1) on both
\* record sheets, the records from row 2 on, one save
export_invoice_batch(file, sales, payments, t) ==
    IF ~HasSheet(file, INVOICE_SALES_SHEET)
          \/ ~HasSheet(file, INVOICE_PAYMENTS_SHEET)
    THEN Failed(file)
    ELSE Saved(file.names,
               [file.sheets EXCEPT
                    ![INVOICE_SALES_SHEET] = BatchSaleRows(sales),
                    ![INVOICE_PAYMENTS_SHEET] = BatchPaymentRows(payments)],
               t, FALSE, Len(sales) + Len(payments))

\* ExcelWriter.append_invoice_sale: the row max_row + 1, the date as a serial
append_invoice_sale(file, sale, t) ==
    IF ~HasSheet(file, INVOICE_SALES_SHEET) THEN Failed(file)
    ELSE LET rows == file.sheets[INVOICE_SALES_SHEET]
             next_row == MaxRowOf(rows) + 1
         IN  Saved(file.names,
                   [file.sheets EXCEPT ![INVOICE_SALES_SHEET] =
                       Append(rows, [date |-> Num(ExcelSerial(sale.date)),
                                     rec |-> sale.id,
                                     total |-> Formula(next_row)])],
                   t, FALSE, 1)

\* ExcelWriter.append_invoice_payment
append_invoice_payment(file, payment, t) ==
    IF ~HasSheet(file, INVOICE_PAYMENTS_SHEET) THEN Failed(file)
    ELSE Saved(file.names,
               [file.sheets EXCEPT ![INVOICE_PAYMENTS_SHEET] =
                   Append(@, [date |-> DateTime(payment.date),
                              rec |-> payment.id])],
               t, FALSE, 1)

\* the two loops of sync_to_invoice: one append per record, each with its
\* own backup and save; a failed append is collected and the loop goes on
RECURSIVE SyncAppend(_, _, _, _)
SyncAppend(st, items, isSale, t) ==
    IF items = <<>> THEN st
    ELSE LET o == IF isSale THEN append_invoice_sale(st.file, Head(items), t)
                  ELSE append_invoice_payment(st.file, Head(items), t)
         IN  SyncAppend([file |-> o.file,
                         backups |-> _create_backup(st.backups, st.file, t),
                         records |-> st.records + (IF o.raised THEN 0 ELSE 1),
                         errors |-> st.errors + (IF o.raised THEN 1 ELSE 0)],
                        Tail(items), isSale, t)

\* SyncManager.sync_to_invoice
sync_to_invoice(file, bk, sales, payments, t) ==
    SyncAppend(SyncAppend([file |-> file, backups |-> bk, records |-> 0,
                           errors |-> 0],
                          sales, TRUE, t),
               payments, FALSE, t)

(***************************************************************************)
(* The writer on an inventory workbook: state and operations.              *)
(***************************************************************************)
\* no file: the value of a backup slot that holds nothing
NoFile == [names |-> <<>>, sheets |-> <<>>, stamp |-> 0]

NoRead == [done |-> FALSE, month |-> 0, raised |-> FALSE, rows |-> <<>>]

NoOp ==
    [op |-> "none", month |-> 0, day |-> 0, row |-> 0, value |-> 0,
     stock |-> <<>>, sales |-> <<>>, payments |-> <<>>,
     sales_by_day |-> <<>>, writes |-> <<>>,
     raised |-> FALSE, saved |-> FALSE, created |-> FALSE, records |-> 0,
     backup |-> FALSE, at |-> 0, read |-> NoRead,
     year |-> 0, file |-> <<>>, before |-> <<>>, outcome |-> <<>>]

\* a sheet as the shop keeps it: every followed row is a product, the
\* formula columns hold formulas, no stock or sale is entered yet
TemplateSheet(k) ==
    [rc \in ModelCells |->
        IF rc[2] = 1 THEN Str(<<"5", "R", "5">>)
        ELSE IF rc[2] = 2 THEN (IF k = "phone" THEN Str(<<"N", "5">>)
                                ELSE Str(<<"N">>))
        ELSE IF rc[2] \in FormulaColsOf(k) THEN Formula(rc[2])
        ELSE None]

InitialWorkbook(k) ==
    [names |-> <<SheetNameOf(k, 1)>>,
     sheets |-> (SheetNameOf(k, 1) :> TemplateSheet(k)),
     stamp |-> 0]

\* the record sheets of a file create_invoice_file has made: headers only
NewInvoiceWorkbook ==
    [names |-> <<INVOICE_SALES_SHEET, INVOICE_PAYMENTS_SHEET>>,
     sheets |-> (INVOICE_SALES_SHEET :> <<>>) @@ (INVOICE_PAYMENTS_SHEET :> <<>>),
     stamp |-> 0]

\* an invoice file of the old format: payments on a Cash sheet, no
\* Payment Record sheet
OldInvoiceWorkbook ==
    [names |-> <<INVOICE_SALES_SHEET, INVOICE_OLD_CASH_SHEET>>,
     sheets |-> (INVOICE_SALES_SHEET :> <<>>) @@ (INVOICE_OLD_CASH_SHEET :> <<>>),
     stamp |-> 0]

NoDb == [tyres |-> <<>>, periods |-> <<>>, sales |-> <<>>]

InitWorkbook ==
    /\ wb \in IF kind = "invoice"
              THEN {NewInvoiceWorkbook, OldInvoiceWorkbook}
              ELSE {InitialWorkbook(kind)}
    /\ backups = [t \in Clock |-> NoFile]
    /\ now = 0
    /\ last = NoOp
    /\ nOps = 0
    /\ syncLog = <<>>

InitFiles ==
    /\ kind \in {"tyre", "phone", "invoice"}
    /\ InitWorkbook
    /\ db = NoDb

StockEntries ==
    [row : ModelRows, initial_stock : Qtys, added_stock : Qtys]
SaleEntries == [row : ModelRows, qty : Qtys]
StockLists == {<<>>} \cup {<<e>> : e \in StockEntries}
SaleLists == {<<>>} \cup {<<e>> : e \in SaleEntries}
SalesByDay == {<<>>} \cup {d :> l : d \in SampleDays, l \in SaleLists}
\* the datasets handed to export_inventory_batch: stock records, daily
\* sales, or one of each
DataSets ==
    {[stock |-> st, sales_by_day |-> <<>>] : st \in StockLists}
        \cup {[stock |-> <<>>, sales_by_day |-> sbd] : sbd \in SalesByDay}
        \cup {[stock |-> <<e>>, sales_by_day |-> 1 :> <<[row |-> e.row, qty |-> 1]>>] :
                  e \in StockEntries}

\* the sales and payments handed to the invoice writers
InvoiceSales == [id : {1, 2}, date : {1}]
InvoicePayments == [id : {1}, date : {1}]
InvoiceSaleLists ==
    {<<>>} \cup {<<a>> : a \in InvoiceSales}
           \cup {<<a, b>> : a \in InvoiceSales, b \in InvoiceSales}
InvoicePaymentLists == {<<>>} \cup {<<a>> : a \in InvoicePayments}

\* what every writer operation does to the state: the file its outcome
\* leaves, the backup when the operation makes one, the record of the call
Finish(o, rec, doBackup) ==
    /\ nOps < MaxOps
    /\ nOps' = nOps + 1
    /\ wb' = o.file
    /\ backups' = IF doBackup THEN _create_backup(backups, wb, now) ELSE backups
    /\ last' = [rec EXCEPT !.raised = o.raised, !.saved = o.saved,
                           !.created = o.created, !.records = o.records,
                           !.backup = doBackup, !.at = now]
    /\ UNCHANGED <<kind, now, db, syncLog>>
    /\ UNCHANGED pureVars

Inventory == {"tyre", "phone"}

EnsureMonthSheet(m) ==
    /\ kind \in Inventory
    /\ Finish(IF kind = "tyre" THEN ensure_month_sheet(wb, m, now)
              ELSE phone_ensure_month_sheet(wb, m, now),
              [NoOp EXCEPT !.op = "ensure_month_sheet", !.month = m],
              FALSE)

WriteInitialStock(m, r, v) ==
    /\ kind = "tyre"
    /\ Finish(write_initial_stock(wb, m, r, v, now),
              [NoOp EXCEPT !.op = "write_initial_stock", !.month = m,
                           !.row = r, !.value = v],
              TRUE)

WriteAddedStock(m, r, v) ==
    /\ kind = "tyre"
    /\ Finish(write_added_stock(wb, m, r, v, now),
              [NoOp EXCEPT !.op = "write_added_stock", !.month = m,
                           !.row = r, !.value = v],
              TRUE)

WriteDailySales(m, d, sales) ==
    /\ kind = "tyre"
    /\ Finish(write_daily_sales(wb, m, d, sales, now),
              [NoOp EXCEPT !.op = "write_daily_sales", !.month = m,
                           !.day = d, !.sales = sales],
              TRUE)

ExportInventoryBatch(m, stock, sbd) ==
    /\ kind \in Inventory
    /\ Finish(IF kind = "tyre"
              THEN export_inventory_batch(wb, m, stock, sbd, now)
              ELSE phone_export_inventory_batch(wb, m, stock, sbd, now),
              [NoOp EXCEPT !.op = "export_inventory_batch", !.month = m,
                           !.stock = stock, !.sales_by_day = sbd],
              TRUE)

ExportInvoiceBatch(sales, payments) ==
    /\ kind = "invoice"
    /\ Finish(export_invoice_batch(wb, sales, payments, now),
              [NoOp EXCEPT !.op = "export_invoice_batch", !.sales = sales,
                           !.payments = payments],
              TRUE)

AppendInvoiceSale(sale) ==
    /\ kind = "invoice"
    /\ Finish(append_invoice_sale(wb, sale, now),
              [NoOp EXCEPT !.op = "append_invoice_sale", !.sales = <<sale>>],
              TRUE)

AppendInvoicePayment(payment) ==
    /\ kind = "invoice"
    /\ Finish(append_invoice_payment(wb, payment, now),
              [NoOp EXCEPT !.op = "append_invoice_payment",
                           !.payments = <<payment>>],
              TRUE)

\* sync_to_invoice returns a SyncResult and raises nothing
SyncToInvoice(sales, payments) ==
    /\ kind = "invoice"
    /\ nOps < MaxOps
    /\ nOps' = nOps + 1
    /\ LET r == sync_to_invoice(wb, backups, sales, payments, now)
       IN  /\ wb' = r.file
           /\ backups' = r.backups
           /\ last' = [NoOp EXCEPT !.op = "sync_to_invoice", !.sales = sales,
                                   !.payments = payments,
                                   !.raised = r.errors > 0,
                                   !.saved = r.records > 0,
                                   !.records = r.records,
                                   !.backup = sales \o payments # <<>>,
                                   !.at = now]
    /\ UNCHANGED <<kind, now, db, syncLog>>
    /\ UNCHANGED pureVars

\* read_inventory after the last operation; the file is left alone
ReadInv(m) ==
    /\ kind \in Inventory
    /\ ~last.read.done
    /\ LET r == IF kind = "tyre" THEN read_inventory(wb, m)
                ELSE phone_read_inventory(wb, m)
       IN  last' = [last EXCEPT !.read = [done |-> TRUE, month |-> m,
                                          raised |-> r.raised, rows |-> r.rows]]
    /\ UNCHANGED <<kind, wb, backups, now, nOps, db, syncLog>>
    /\ UNCHANGED pureVars

Tick ==
    /\ now < MaxClock
    /\ now' = now + 1
    /\ UNCHANGED <<kind, wb, backups, last, nOps, db, syncLog>>
    /\ UNCHANGED pureVars

Next ==
    \/ \E m \in SampleMonths : EnsureMonthSheet(m)
    \/ \E m \in SampleMonths, r \in ModelRows, v \in Qtys :
           WriteInitialStock(m, r, v)
    \/ \E m \in SampleMonths, r \in ModelRows, v \in Qtys :
           WriteAddedStock(m, r, v)
    \/ \E m \in SampleMonths, d \in SampleDays, sales \in SaleLists :
           WriteDailySales(m, d, sales)
    \/ \E m \in SampleMonths, ds \in DataSets :
           ExportInventoryBatch(m, ds.stock, ds.sales_by_day)
    \/ \E sales \in InvoiceSaleLists, payments \in InvoicePaymentLists :
           ExportInvoiceBatch(sales, payments)
    \/ \E sale \in InvoiceSales : AppendInvoiceSale(sale)
    \/ \E payment \in InvoicePayments : AppendInvoicePayment(payment)
    \/ \E sales \in InvoiceSaleLists, payments \in InvoicePaymentLists :
           SyncToInvoice(sales, payments)
    \/ \E m \in SampleMonths : ReadInv(m)
    \/ Tick

(***************************************************************************)
(* Properties of the writer.                                               *)
(***************************************************************************)
\* a writer operation has just run
OpStep == nOps' = nOps + 1

\* the step leaves every formula-column cell of every sheet of the workbook
\* as it was
KeepsFormulaCells ==
    kind \in Inventory =>
        \A name \in DOMAIN wb.sheets :
            /\ name \in DOMAIN wb'.sheets
            /\ \A rc \in ModelCells :
                   rc[2] \in FormulaColsOf(kind) =>
                       wb'.sheets[name][rc] = wb.sheets[name][rc]

\* C2: whatever writer operation runs on an inventory workbook, every
\* formula-column cell of every sheet the workbook already has holds after
\* the operation what it held before it.
C2_FormulaCellsKept == [][KeepsFormulaCells]_vars

\* a batch export has written sales into a sheet that holds formulas
C2_Witness ==
    /\ kind \in Inventory
    /\ last.op = "export_inventory_batch"
    /\ last.saved
    /\ last.records > 0
    /\ \E rc \in ModelCells :
           wb.sheets[SheetNameOf(kind, last.month)][rc].k = "formula"

\* the writer operations that call _create_backup
BackedUpOps ==
    {"write_daily_sales", "write_initial_stock", "write_added_stock",
     "export_inventory_batch", "export_invoice_batch",
     "append_invoice_sale", "append_invoice_payment"}

\* a step of an operation that is to make a backup leaves at the time of the
\* call a copy of the file as it was before the call
BacksUp ==
    (OpStep /\ (\/ last'.op \in BackedUpOps
                \/ last'.op = "ensure_month_sheet" /\ last'.created))
        => backups'[now] = wb

\* C3: every one of the writer's saving operations, ensure_month_sheet when
\* it creates a sheet among them, leaves in the backups directory a copy,
\* stamped with the time of the call, of the file as it was before the call,
\* also when the write then fails.
C3_BackupBeforeEverySave == [][BacksUp]_vars

\* what a dataset gives for a cell: the value of the last entry that has one
GivenInitial(stock, row) ==
    LET given == {i \in 1 .. Len(stock) :
                     stock[i].row = row /\ stock[i].initial_stock # 0}
    IN  IF given = {} THEN 0 ELSE stock[SetMax(given)].initial_stock

GivenAdded(stock, row) ==
    LET given == {i \in 1 .. Len(stock) :
                     stock[i].row = row /\ stock[i].added_stock # 0}
    IN  IF given = {} THEN 0 ELSE stock[SetMax(given)].added_stock

GivenQty(sales_by_day, day, row) ==
    IF day \notin DOMAIN sales_by_day THEN 0
    ELSE LET sales == sales_by_day[day]
             given == {i \in 1 .. Len(sales) :
                          sales[i].row = row /\ sales[i].qty # 0}
         IN  IF given = {} THEN 0 ELSE sales[SetMax(given)].qty

\* the rows a dataset addresses
RowsOf(stock, sales_by_day) ==
    {stock[i].row : i \in 1 .. Len(stock)}
        \cup UNION {{sales_by_day[d][i].row : i \in 1 .. Len(sales_by_day[d])} :
                       d \in DOMAIN sales_by_day}

\* C4: after a batch export that returned, every stock and day cell of the
\* data window holds the value the dataset gives for it and is empty when
\* the dataset gives none or zero.
C4_ExportIsSnapshot ==
    (kind \in Inventory /\ last.op = "export_inventory_batch" /\ last.saved) =>
        LET layout == LayoutOf(kind, last.month)
            ws == wb.sheets[SheetNameOf(kind, last.month)]
        IN  \A row \in DataRowsOf(kind) \cap ModelRows :
                /\ ws[<<row, layout.initial_stock_col>>]
                       = NumOrNone(GivenInitial(last.stock, row))
                /\ ws[<<row, layout.added_stock_col>>]
                       = NumOrNone(GivenAdded(last.stock, row))
                /\ \A day \in 1 .. 31 :
                       LET col == DayToColOf(kind, layout, day).col
                       IN  col \in TrackedCols =>
                               ws[<<row, col>>]
                                   = NumOrNone(GivenQty(last.sales_by_day, day, row))

\* C6: read_inventory of the month a batch export has just written returns,
\* for every row the dataset addresses, the exported initial stock, added
\* stock and day -> qty map.
C6_RoundTrip ==
    (/\ kind \in Inventory
     /\ last.op = "export_inventory_batch" /\ last.saved
     /\ last.read.done /\ last.read.month = last.month) =>
        /\ ~last.read.raised
        /\ \A row \in RowsOf(last.stock, last.sales_by_day) :
               \E i \in 1 .. Len(last.read.rows) :
                   LET rec == last.read.rows[i]
                       sold == {day \in DOMAIN last.sales_by_day \cap (1 .. 31) :
                                   GivenQty(last.sales_by_day, day, row) > 0}
                   IN  /\ rec.row = row
                       /\ rec.initial_stock = GivenInitial(last.stock, row)
                       /\ rec.added_stock = GivenAdded(last.stock, row)
                       /\ rec.daily_sales
                              = [day \in sold |->
                                    GivenQty(last.sales_by_day, day, row)]

\* the operation that has just run is the one before it, run again with the
\* same records, and both returned
SameExportAgain ==
    /\ OpStep
    /\ last.saved /\ ~last.raised /\ ~last'.raised
    /\ last'.op = last.op
    /\ last'.month = last.month
    /\ last'.stock = last.stock
    /\ last'.sales_by_day = last.sales_by_day
    /\ last'.sales = last.sales
    /\ last'.payments = last.payments

ExportOps ==
    {"export_inventory_batch", "export_invoice_batch", "sync_to_invoice"}

\* the statement as the specification has it: every export, run a second
\* time with the same records, leaves the sheets as the first run left them
EveryExportRewrites ==
    (SameExportAgain /\ last'.op \in ExportOps) => wb'.sheets = wb.sheets

C5_EveryExportRewrites == [][EveryExportRewrites]_vars

\* the batch exports rewrite, sync_to_invoice appends
BatchRewritesSyncAppends ==
       /\ (SameExportAgain
              /\ last'.op \in {"export_inventory_batch", "export_invoice_batch"})
           => wb'.sheets = wb.sheets
       /\ (OpStep /\ last'.op = "export_invoice_batch" /\ last'.saved)
           => LET rows == wb'.sheets[INVOICE_SALES_SHEET]
                  pays == wb'.sheets[INVOICE_PAYMENTS_SHEET]
              IN  /\ Len(rows) = Len(last'.sales)
                  /\ \A i \in 1 .. Len(rows) : rows[i].rec = last'.sales[i].id
                  /\ Len(pays) = Len(last'.payments)
                  /\ \A i \in 1 .. Len(pays) : pays[i].rec = last'.payments[i].id
       /\ (OpStep /\ last'.op = "sync_to_invoice")
           => LET old == wb.sheets[INVOICE_SALES_SHEET]
                  rows == wb'.sheets[INVOICE_SALES_SHEET]
              IN  /\ Len(rows) = Len(old) + Len(last'.sales)
                  /\ SubSeq(rows, 1, Len(old)) = old
                  /\ \A i \in 1 .. Len(last'.sales) :
                         rows[Len(old) + i].rec = last'.sales[i].id

\* C5: the batch exports, run a second time with the same records, leave the
\* sheets as the first run left them, and export_invoice_batch leaves on the
\* record sheets the records of the call and nothing else; sync_to_invoice
\* keeps the rows of the Sales Record sheet and adds one row per sale.
C5_BatchRewritesSyncAppends == [][BatchRewritesSyncAppends]_vars

\* sync_to_invoice has run twice with the same sale: the sale is on two rows
C5_Witness ==
    /\ kind = "invoice"
    /\ last.op = "sync_to_invoice"
    /\ Len(last.sales) = 1
    /\ Len(wb.sheets[INVOICE_SALES_SHEET]) = 2
    /\ \A i \in 1 .. 2 :
           wb.sheets[INVOICE_SALES_SHEET][i].rec = last.sales[1].id

(***************************************************************************)
(* The protected write path with the column left open: load, the sheet,    *)
(* the protected writes, save.  The layouts never hand it a formula        *)
(* column; here the caller does.                                           *)
(***************************************************************************)
\* E and K are formula columns of one product line, I of both, M of neither
ProbeCols == {5, 9, 11, 13}
ProbeCells == [row : ModelRows, col : ProbeCols, value : {Num(1)}]
ProbeWrites ==
    {<<a>> : a \in ProbeCells} \cup {<<a, b>> : a \in ProbeCells, b \in ProbeCells}

ProtectedWrite(m, writes) ==
    /\ kind \in Inventory
    /\ Finish(WritePath(kind, wb, SheetNameOf(kind, m), writes, now),
              [NoOp EXCEPT !.op = "protected_write", !.month = m,
                           !.writes = writes],
              TRUE)

NextProtect ==
    \/ \E m \in SampleMonths, writes \in ProbeWrites : ProtectedWrite(m, writes)
    \/ Tick

\* a call with a write to a formula column raises and leaves the file as it
\* was, and the protected write itself hands the sheet back untouched
RefusesFormulaWrite ==
    /\ (/\ OpStep
        /\ last'.op = "protected_write"
        /\ \E i \in 1 .. Len(last'.writes) :
               last'.writes[i].col \in FormulaColsOf(kind))
           => (last'.raised /\ ~last'.saved /\ wb' = wb)
    /\ \A name \in DOMAIN wb.sheets, row \in ModelRows :
           \A col \in FormulaColsOf(kind) :
               SafeWriteOf(kind, wb.sheets[name], row, col, Num(1))
                   = [raised |-> TRUE, ws |-> wb.sheets[name]]

\* C1: on every path through the protected cell write, a write whose column
\* is in the formula-column set of the product line raises, the cell is not
\* set, and the file keeps its content because nothing is saved.
C1_FormulaWriteRefused == [][RefusesFormulaWrite]_vars

\* a call wrote a writable cell in memory, then was refused on a formula
\* column of a sheet the file has
C1_Witness ==
    /\ last.op = "protected_write"
    /\ last.raised /\ ~last.saved
    /\ HasSheet(wb, SheetNameOf(kind, last.month))
    /\ Len(last.writes) = 2
    /\ last.writes[1].col \notin FormulaColsOf(kind)
    /\ last.writes[2].col \in FormulaColsOf(kind)

(***************************************************************************)
(* routers/sync.py, routers/phone_sync.py: the inventory export endpoint.  *)
(*                                                                         *)
(* The database is [tyres, periods, sales]: the excel_row of each product  *)
(* (NoRow when it has none), the inventory periods and the sales of one    *)
(* year.  No request of the model changes it.                              *)
(***************************************************************************)
\* product 1 sits on a sheet row, product 2 has no excel_row
DbTyres == <<PHONE_DATA_START_ROW, NoRow>>
DbPeriods ==
    [tyre_id : DOMAIN DbTyres, month : SampleMonths,
     initial_stock : Qtys, added_stock : Qtys]
DbSales ==
    [tyre_id : DOMAIN DbTyres, month : SampleMonths, day : {1, 31},
     quantity : {1}]
DbPeriodLists == {<<>>} \cup {<<a>> : a \in DbPeriods}
DbSaleLists ==
    {<<>>} \cup {<<a>> : a \in DbSales}
           \cup {<<a, b>> : a \in DbSales, b \in DbSales}

\* "tyre_map = {t.id: t.excel_row ...}" over the products that have a row
TyreMap(d) ==
    [id \in {i \in DOMAIN d.tyres : d.tyres[i] # NoRow} |-> d.tyres[id]]

\* stock_data: one entry per inventory period of the month whose product
\* has a row
RECURSIVE StockDataOf(_, _, _)
StockDataOf(periods, month, tyre_map) ==
    IF periods = <<>> THEN <<>>
    ELSE LET inv == Head(periods)
             rest == StockDataOf(Tail(periods), month, tyre_map)
         IN  IF inv.month = month /\ inv.tyre_id \in DOMAIN tyre_map
             THEN <<[row |-> tyre_map[inv.tyre_id],
                     initial_stock |-> inv.initial_stock,
                     added_stock |-> inv.added_stock]>> \o rest
             ELSE rest

\* "existing['qty'] += sale.quantity" on the first entry of the row, or
\* the append of a new entry
AddSale(entries, row, quantity) ==
    LET found == {i \in 1 .. Len(entries) : entries[i].row = row}
    IN  IF found = {} THEN Append(entries, [row |-> row, qty |-> quantity])
        ELSE [entries EXCEPT ![SetMin(found)].qty = @ + quantity]

\* sales_by_day: the sales of the month grouped by day and summed by row
RECURSIVE GroupSales(_, _, _, _)
GroupSales(sales, month, tyre_map, acc) ==
    IF sales = <<>> THEN acc
    ELSE LET sale == Head(sales)
             day == sale.day
             entries == IF day \in DOMAIN acc THEN acc[day] ELSE <<>>
         IN  IF sale.month # month \/ sale.tyre_id \notin DOMAIN tyre_map
             THEN GroupSales(Tail(sales), month, tyre_map, acc)
             ELSE GroupSales(Tail(sales), month, tyre_map,
                      [d \in DOMAIN acc \cup {day} |->
                          IF d = day
                          THEN AddSale(entries, tyre_map[sale.tyre_id],
                                       sale.quantity)
                          ELSE acc[d]])

\* SHA-256 of the bytes of the file: the sheets and the time of the save
\* that openpyxl stamped into the file
compute_file_hash(file) == <<"sha256", file.names, file.sheets, file.stamp>>

\* export_inventory / export_phone_inventory
ExportInventory(m) ==
    /\ kind \in Inventory
    /\ nOps < MaxOps
    /\ nOps' = nOps + 1
    /\ LET e == EnsureSheet(kind, wb, m, now)
           stock_data == StockDataOf(db.periods, m, TyreMap(db))
           sales_by_day == GroupSales(db.sales, m, TyreMap(db), <<>>)
           b == ExportBatch(kind, e.file, m, stock_data, sales_by_day, now)
       IN  /\ wb' = b.file
           /\ backups' = _create_backup(backups, e.file, now)
           /\ syncLog' = Append(syncLog,
                  IF b.raised
                  THEN [direction |-> "export", status |-> "failed",
                        records |-> 0, file_hash |-> <<>>]
                  ELSE [direction |-> "export", status |-> "success",
                        records |-> b.records,
                        file_hash |-> compute_file_hash(b.file)])
           /\ last' = [NoOp EXCEPT !.op = "export_inventory", !.month = m,
                                   !.stock = stock_data,
                                   !.sales_by_day = sales_by_day,
                                   !.raised = b.raised, !.saved = b.saved,
                                   !.created = e.created,
                                   !.records = b.records,
                                   !.backup = TRUE, !.at = now]
    /\ UNCHANGED <<kind, now, db>>
    /\ UNCHANGED pureVars

NextExport ==
    \/ \E m \in SampleMonths : ExportInventory(m)
    \/ Tick

InitDb ==
    \E periods \in DbPeriodLists, sales \in DbSaleLists :
        db = [tyres |-> DbTyres, periods |-> periods, sales |-> sales]

\* the request repeats the one before it: the same month, both successful
SameRequestAgain ==
    /\ OpStep
    /\ last.op = "export_inventory" /\ last'.op = "export_inventory"
    /\ last'.month = last.month
    /\ ~last.raised /\ ~last'.raised

LastHash(log) == log[Len(log)].file_hash

SameDigestAgain ==
    SameRequestAgain => LastHash(syncLog') = LastHash(syncLog)

\* the statement as the specification has it: the digest logged by the
\* second of two equal exports is the digest logged by the first
C7_SameDigestAgain == [][SameDigestAgain]_vars

SameCellsAgain ==
    SameRequestAgain =>
        /\ wb'.names = wb.names
        /\ wb'.sheets = wb.sheets
        /\ (LastHash(syncLog') = LastHash(syncLog)) <=> (wb'.stamp = wb.stamp)

\* C7: the second of two equal exports in succession leaves the sheets and
\* every cell of the file as the first left them; the digests of the two
\* files are equal exactly when the two saves carry the same time.
C7_SameCellsAgain == [][SameCellsAgain]_vars

\* two exports of month 1, the second a second later, wrote the same
\* records and logged two digests
C7_Witness ==
    /\ Len(syncLog) = 2
    /\ syncLog[1].status = "success" /\ syncLog[2].status = "success"
    /\ syncLog[1].file_hash # syncLog[2].file_hash
    /\ syncLog[1].file_hash[3] = syncLog[2].file_hash[3]
    /\ last.op = "export_inventory" /\ last.records > 0
    /\ Len(wb.names) = 1

(***************************************************************************)
(* routers/sync.py: export_inventory requests on one event loop.           *)
(*                                                                         *)
(* A handler runs until it awaits; every "await db.execute(...)" hands     *)
(* control to the loop, which resumes any request that waits.  The calls   *)
(* of the writer are synchronous.  call holds the loop and the requests:   *)
(* the position of each handler, what it has read, the order of the reads, *)
(* the request that runs, and the requests that have the workbook open.    *)
(***************************************************************************)
Requests == {1, 2}
\* the month both requests export
ExportedMonth == 1

\* the inventory periods another request can commit
PeriodVersions ==
    {<<[tyre_id |-> 1, month |-> ExportedMonth, initial_stock |-> i,
        added_stock |-> a]>> : i \in {1, 2}, a \in {0}}
\* the sales another request can commit
SaleVersions ==
    {<<>>, <<[tyre_id |-> 1, month |-> ExportedMonth, day |-> 1,
              quantity |-> 1]>>}

InitLoop ==
    call = [pc |-> [r \in Requests |-> "start"],
            tyre_map |-> [r \in Requests |-> <<>>],
            stock_data |-> [r \in Requests |-> <<>>],
            stock_read |-> [r \in Requests |-> 0],
            sales_read |-> [r \in Requests |-> 0],
            wrote |-> [r \in Requests |-> <<>>],
            reads |-> 0, running |-> 0, open |-> {}]

\* a call that hands control to the loop while the workbook is open
YieldsAfterOpen(r) == 0

\* openpyxl.load_workbook and what follows it up to wb.close() run without
\* an await: the request that opened the workbook goes on running
AfterOpen(r) == r

\* the handler starts and calls ensure_month_sheet, which opens the workbook
OpenForEnsure(r) ==
    /\ call.running = 0 /\ call.pc[r] = "start"
    /\ call' = [call EXCEPT !.pc[r] = "ensuring", !.open = @ \cup {r},
                            !.running = AfterOpen(r)]
    /\ UNCHANGED <<sizeA, sizeB>>
    /\ UNCHANGED fileVars

\* ensure_month_sheet saves and closes; "await db.execute(select(Tyre))"
CloseEnsure(r) ==
    /\ call.running \in {0, r} /\ call.pc[r] = "ensuring"
    /\ wb' = EnsureSheet(kind, wb, ExportedMonth, now).file
    /\ call' = [call EXCEPT !.pc[r] = "tyres", !.open = @ \ {r},
                            !.running = 0]
    /\ UNCHANGED <<sizeA, sizeB, kind, backups, now, last, nOps, db, syncLog>>

\* resumed with the products: tyre_map; "await db.execute(select(InventoryPeriod))"
ReadTyres(r) ==
    /\ call.running = 0 /\ call.pc[r] = "tyres"
    /\ call' = [call EXCEPT !.pc[r] = "periods", !.tyre_map[r] = TyreMap(db)]
    /\ UNCHANGED <<sizeA, sizeB>>
    /\ UNCHANGED fileVars

\* resumed with the periods: stock_data; "await db.execute(select(Sale))"
ReadPeriods(r) ==
    /\ call.running = 0 /\ call.pc[r] = "periods"
    /\ call' = [call EXCEPT !.pc[r] = "sales",
                            !.stock_data[r] =
                                StockDataOf(db.periods, ExportedMonth,
                                            call.tyre_map[r]),
                            !.reads = @ + 1,
                            !.stock_read[r] = call.reads + 1]
    /\ UNCHANGED <<sizeA, sizeB>>
    /\ UNCHANGED fileVars

\* resumed with the sales: sales_by_day, then export_inventory_batch makes
\* its backup, opens the workbook, writes, saves and closes, and the
\* handler awaits _log_sync
ReadSalesAndOpen(r) ==
    /\ call.running = 0 /\ call.pc[r] = "sales"
    /\ call' = [call EXCEPT !.pc[r] = "writing", !.open = @ \cup {r},
                            !.running = AfterOpen(r),
                            !.reads = @ + 1,
                            !.sales_read[r] = call.reads + 1]
    /\ last' = [NoOp EXCEPT !.op = "export_inventory",
                            !.month = ExportedMonth,
                            !.stock = call.stock_data[r],
                            !.sales_by_day =
                                GroupSales(db.sales, ExportedMonth,
                                           call.tyre_map[r], <<>>)]
    /\ backups' = _create_backup(backups, wb, now)
    /\ UNCHANGED <<sizeA, sizeB, kind, wb, now, nOps, db, syncLog>>

SaveBatch(r) ==
    /\ call.running \in {0, r} /\ call.pc[r] = "writing"
    /\ LET b == ExportBatch(kind, wb, ExportedMonth, last.stock,
                            last.sales_by_day, now)
       IN  /\ wb' = b.file
           /\ call' = [call EXCEPT !.pc[r] = "done", !.open = @ \ {r},
                                   !.running = 0, !.wrote[r] = b.file]
    /\ UNCHANGED <<sizeA, sizeB, kind, backups, now, last, nOps, db, syncLog>>

\* a request of another endpoint commits new periods or sales while no
\* handler runs
CommitChange(periods, sales) ==
    /\ call.running = 0
    /\ nOps < MaxOps
    /\ nOps' = nOps + 1
    /\ <<periods, sales>> # <<db.periods, db.sales>>
    /\ db' = [db EXCEPT !.periods = periods, !.sales = sales]
    /\ UNCHANGED <<kind, wb, backups, now, last, syncLog>>
    /\ UNCHANGED pureVars

NextLoop ==
    \/ \E r \in Requests : OpenForEnsure(r)
    \/ \E r \in Requests : CloseEnsure(r)
    \/ \E r \in Requests : ReadTyres(r)
    \/ \E r \in Requests : ReadPeriods(r)
    \/ \E r \in Requests : ReadSalesAndOpen(r)
    \/ \E r \in Requests : SaveBatch(r)
    \/ \E periods \in PeriodVersions, sales \in SaleVersions :
           CommitChange(periods, sales)

\* C26: no two operations of the writer on the inventory file overlap: at
\* most one request has the workbook open, and from the opening to the
\* release that request is the one that runs
C26_OperationsDoNotOverlap ==
    /\ Cardinality(call.open) <= 1
    /\ \A r \in call.open : call.running = r

\* request 2 has the workbook open for its batch write while the handler of
\* request 1 is suspended at an await between its own two operations
C26_Witness ==
    /\ call.open = {2}
    /\ call.pc[2] = "writing"
    /\ call.pc[1] \in {"tyres", "periods", "sales"}

AllExported == \A r \in Requests : call.pc[r] = "done"

\* the cells of the columns cols of the sheet of the exported month
ExportedCells(file, cols) ==
    [rc \in {x \in ModelCells : x[2] \in cols} |->
        file.sheets[get_sheet_name(ExportedMonth)][rc]]
StockCols ==
    {get_layout(ExportedMonth).initial_stock_col,
     get_layout(ExportedMonth).added_stock_col}
DailyCols ==
    get_layout(ExportedMonth).daily_start_col
        .. get_layout(ExportedMonth).daily_end_col

\* the statement as the specification has it: after both exports the stock
\* columns of the file are those written by the request that read the
\* periods last, and the daily columns are those written by the request
\* that read the sales last
C27_LatestSnapshotStays ==
    AllExported =>
        \A r \in Requests :
            /\ (\A q \in Requests : call.stock_read[q] <= call.stock_read[r])
                   => ExportedCells(wb, StockCols)
                          = ExportedCells(call.wrote[r], StockCols)
            /\ (\A q \in Requests : call.sales_read[q] <= call.sales_read[r])
                   => ExportedCells(wb, DailyCols)
                          = ExportedCells(call.wrote[r], DailyCols)

(***************************************************************************)
(* Specifications.                                                         *)
(***************************************************************************)
(***************************************************************************)
(* The matchers on catalogues in which two rows have one key, and in which *)
(* a cell holds the character that separates the parts of a key.           *)
(***************************************************************************)
KeyTyreAttrs ==
    [size : {<<"5">>, <<"5", "R">>}, type : {<<>>, <<"N">>, <<"|">>},
     brand : {<<>>}, pattern : {<<>>}]
KeyPhoneAttrs ==
    [brand : {<<"a">>, <<"A", " ">>}, model : {<<"N">>},
     config : {<<>>, <<"p">>}]

RECURSIVE KeyTyreCatalogues(_)
KeyTyreCatalogues(n) ==
    IF n = 0 THEN {<<>>}
    ELSE LET shorter == KeyTyreCatalogues(n - 1)
         IN  shorter \cup
             {Append(c, [row |-> DATA_START_ROW + Len(c), size |-> a.size,
                         type |-> a.type, brand |-> a.brand,
                         pattern |-> a.pattern]) :
                  c \in {x \in shorter : Len(x) = n - 1}, a \in KeyTyreAttrs}

RECURSIVE KeyPhoneCatalogues(_)
KeyPhoneCatalogues(n) ==
    IF n = 0 THEN {<<>>}
    ELSE LET shorter == KeyPhoneCatalogues(n - 1)
         IN  shorter \cup
             {Append(c, [row |-> PHONE_DATA_START_ROW + Len(c),
                         brand |-> a.brand, model |-> a.model,
                         config |-> a.config]) :
                  c \in {x \in shorter : Len(x) = n - 1}, a \in KeyPhoneAttrs}

KeyTyreQueries ==
    {[NoQuery EXCEPT !.size = sz, !.type = ty] :
        sz \in {<<"5">>, <<"5", "|">>, <<"5", "r">>, <<"r">>},
        ty \in {<<>>, <<"n">>}}
KeyPhoneQueries ==
    {[NoQuery EXCEPT !.brand = br, !.model = <<"n">>, !.config = co] :
        br \in {<<"a">>, <<"b">>}, co \in {<<>>, <<"p">>}}

InitKeyCalls ==
    call \in {[fn |-> "TyreMapper", tyres |-> c, mapper |-> TyreMapper(c),
               query |-> NoQuery, result |-> NoRow, first |-> NoRow,
               calls |-> 0] :
                  c \in KeyTyreCatalogues(MaxTyres)}
             \cup {[fn |-> "PhoneMapper", tyres |-> c, mapper |-> PhoneMapper(c),
                    query |-> NoQuery, result |-> NoRow, first |-> NoRow,
                    calls |-> 0] :
                       c \in KeyPhoneCatalogues(MaxTyres)}

MatchTyre(q) ==
    /\ call.fn = "TyreMapper"
    /\ LET row == match_tyre(call.mapper, q.size, q.type, q.brand, q.pattern)
       IN  call' = [call EXCEPT !.fn = "match_tyre", !.query = q,
                                !.result = row, !.first = row, !.calls = 1]
    /\ UNCHANGED <<sizeA, sizeB>> /\ UNCHANGED fileVars

MatchPhone(q) ==
    /\ call.fn = "PhoneMapper"
    /\ LET row == match_phone(call.mapper, q.brand, q.model, q.config)
       IN  call' = [call EXCEPT !.fn = "match_phone", !.query = q,
                                !.result = row, !.first = row, !.calls = 1]
    /\ UNCHANGED <<sizeA, sizeB>> /\ UNCHANGED fileVars

NextKeys ==
    \/ \E q \in KeyTyreQueries : MatchTyre(q)
    \/ \E q \in KeyTyreQueries : MatchTyreFuzzy(q)
    \/ \E q \in KeyPhoneQueries : MatchPhone(q)
    \/ \E q \in KeyPhoneQueries : MatchPhoneFuzzy(q)

\* the catalogue positions whose exact key is the key of the query
SameKey(tyres, q) ==
    {i \in DOMAIN tyres :
        _make_key(tyres[i].size, tyres[i].type, tyres[i].brand,
                  tyres[i].pattern)
            = _make_key(q.size, q.type, q.brand, q.pattern)}
SamePhoneKey(phones, q) ==
    {i \in DOMAIN phones :
        phone_make_key(phones[i].brand, phones[i].model, phones[i].config)
            = phone_make_key(q.brand, q.model, q.config)}

\* the positions of the exact key of the last call, tyres or phones
KeyPositions ==
    IF call.fn \in {"match_tyre", "match_tyre_fuzzy"}
    THEN SameKey(call.tyres, call.query)
    ELSE IF call.fn \in {"match_phone", "match_phone_fuzzy"}
    THEN SamePhoneKey(call.tyres, call.query)
    ELSE {}

\* the statement as the specification has it: of the rows of one exact key
\* the one registered first is returned
C28_FirstOfEqualKeysWins ==
    KeyPositions # {} => call.result = call.tyres[SetMin(KeyPositions)].row

\* C28: when catalogue rows have the exact key of the query, match_tyre and
\* match_phone, and the fuzzy matchers through their first stage, return
\* the row of the one registered last; the exact matchers return no row
\* when no row has the key.
C28_LastOfEqualKeysWins ==
    /\ KeyPositions # {} =>
           call.result = call.tyres[SetMax(KeyPositions)].row
    /\ (call.fn \in {"match_tyre", "match_phone"} /\ KeyPositions = {}) =>
           call.result = NoRow

\* match_tyre on two rows of one key answered with the second row
C28_Witness ==
    /\ call.fn = "match_tyre"
    /\ Len(call.tyres) = 2
    /\ KeyPositions = {1, 2}
    /\ call.result = call.tyres[2].row
    /\ call.tyres[1].row # call.tyres[2].row

\* the statement as the specification has it: a row match_tyre_fuzzy
\* returns is the row of an entry of the normalised size of the query, and
\* it returns no row exactly when no entry has that size
C29_SameSizeOnly ==
    call.fn = "match_tyre_fuzzy" =>
        /\ call.result # NoRow =>
               \E i \in SameSize(call.tyres, call.query) :
                   call.tyres[i].row = call.result
        /\ call.result = NoRow <=> SameSize(call.tyres, call.query) = {}

(***************************************************************************)
(* The backups of several writes.                                          *)
(***************************************************************************)
\* the step leaves every backup that exists as it is
KeepsBackups ==
    OpStep => \A t \in Clock : backups[t] # NoFile => backups'[t] = backups[t]

\* the statement as the specification has it: a write operation changes no
\* backup written before it, so that every write has a backup of its own
C30_BackupsAreKept == [][KeepsBackups]_vars

(***************************************************************************)
(* sync_to_inventory: one write_daily_sales per day.                       *)
(***************************************************************************)
\* a day before the first of the month, the first day and the last day
SyncDays == {0, 1, 31}
\* the sales of one day: none, or one record
SyncSaleLists == {<<>>} \cup {<<[row |-> r, qty |-> 1]>> : r \in ModelRows}
\* sales_by_day: no day, one day or two days
SyncSalesByDay ==
    {<<>>} \cup {d :> l : d \in SyncDays, l \in SyncSaleLists}
           \cup {(p[1] :> l) @@ (p[2] :> k) :
                     p \in {q \in SyncDays \X SyncDays : q[1] < q[2]},
                     l \in SyncSaleLists, k \in SyncSaleLists}

\* sorted(sales_by_day.items()): the days in ascending order
RECURSIVE SortedDays(_)
SortedDays(S) ==
    IF S = {} THEN <<>> ELSE <<SetMin(S)>> \o SortedDays(S \ {SetMin(S)})

\* a loop that ends at the first day whose write raises
RECURSIVE SyncDaysStopping(_, _, _, _, _)
SyncDaysStopping(st, month, days, sales_by_day, t) ==
    IF days = <<>> THEN st
    ELSE LET day == Head(days)
             o == write_daily_sales(st.file, month, day, sales_by_day[day], t)
             bk == _create_backup(st.backups, st.file, t)
         IN  IF o.raised
             THEN [st EXCEPT !.backups = bk, !.errors = Append(@, day)]
             ELSE SyncDaysStopping(
                      [file |-> o.file, backups |-> bk,
                       total_records |->
                           st.total_records + Len(sales_by_day[day]),
                       errors |-> st.errors],
                      month, Tail(days), sales_by_day, t)

\* the loop of sync_to_inventory: write_daily_sales makes its backup, then
\* writes and saves; a write that raises adds the day to errors and the
\* loop goes on with the next day
RECURSIVE SyncDaysLoop(_, _, _, _, _)
SyncDaysLoop(st, month, days, sales_by_day, t) ==
    IF days = <<>> THEN st
    ELSE LET day == Head(days)
             o == write_daily_sales(st.file, month, day, sales_by_day[day], t)
         IN  SyncDaysLoop(
                 [file |-> o.file,
                  backups |-> _create_backup(st.backups, st.file, t),
                  total_records |->
                      st.total_records
                          + (IF o.raised THEN 0 ELSE Len(sales_by_day[day])),
                  errors |-> IF o.raised THEN Append(st.errors, day)
                             ELSE st.errors],
                 month, Tail(days), sales_by_day, t)

\* SyncManager.sync_to_inventory and the SyncResult it returns
sync_to_inventory(file, bk, month, sales_by_day, t) ==
    LET st == SyncDaysLoop([file |-> file, backups |-> bk,
                            total_records |-> 0, errors |-> <<>>],
                           month, SortedDays(DOMAIN sales_by_day),
                           sales_by_day, t)
    IN  [file |-> st.file, backups |-> st.backups,
         result |-> [success |-> Len(st.errors) = 0,
                     records_processed |-> st.total_records,
                     errors |-> st.errors]]

\* sync_to_inventory returns a SyncResult and raises nothing
SyncToInventory(m, sbd) ==
    /\ kind = "tyre"
    /\ nOps < MaxOps
    /\ nOps' = nOps + 1
    /\ LET r == sync_to_inventory(wb, backups, m, sbd, now)
       IN  /\ wb' = r.file
           /\ backups' = r.backups
           /\ last' = [NoOp EXCEPT !.op = "sync_to_inventory", !.month = m,
                                   !.sales_by_day = sbd,
                                   !.raised = ~r.result.success,
                                   !.saved = r.file # wb,
                                   !.records = r.result.records_processed,
                                   !.backup = DOMAIN sbd # {},
                                   !.at = now,
                                   !.before = wb,
                                   !.outcome = r.result]
    /\ UNCHANGED <<kind, now, db, syncLog>>
    /\ UNCHANGED pureVars

NextSync ==
    \/ \E m \in SampleMonths, sbd \in SyncSalesByDay : SyncToInventory(m, sbd)
    \/ \E m \in SampleMonths : EnsureMonthSheet(m)
    \/ Tick

\* the days of the last sync whose write, taken alone, raises
FailingDays ==
    {d \in DOMAIN last.sales_by_day :
        write_daily_sales(last.before, last.month, d, last.sales_by_day[d],
                          last.at).raised}
WrittenDays == DOMAIN last.sales_by_day \ FailingDays

RECURSIVE SyncedRecords(_)
SyncedRecords(S) ==
    IF S = {} THEN 0
    ELSE LET d == CHOOSE x \in S : TRUE
         IN  Len(last.sales_by_day[d]) + SyncedRecords(S \ {d})

\* the cells of the column of day d hold what the write of day d alone
\* leaves in them
DayIsInFile(d) ==
    LET name == get_sheet_name(last.month)
        c == day_to_col(get_layout(last.month), d).col
        alone == write_daily_sales(last.before, last.month, d,
                                   last.sales_by_day[d], last.at).file
    IN  \A rc \in ModelCells :
            rc[2] = c => wb.sheets[name][rc] = alone.sheets[name][rc]

\* C25: sync_to_inventory attempts the write of every day, also after the
\* write of an earlier day failed; the writes that were saved stay in the
\* file; every failed day is one entry of errors; success is true exactly
\* when errors is empty; records_processed counts the records of the days
\* whose write succeeded and no others
C25_PartialFailureIsReported ==
    last.op = "sync_to_inventory" =>
        /\ {last.outcome.errors[i] : i \in DOMAIN last.outcome.errors}
               = FailingDays
        /\ Len(last.outcome.errors) = Cardinality(FailingDays)
        /\ last.outcome.success <=> last.outcome.errors = <<>>
        /\ last.outcome.records_processed = SyncedRecords(WrittenDays)
        /\ \A d \in WrittenDays : DayIsInFile(d)

\* a sync in which the write of day 0 failed and the write of a later day
\* was made and counted
C25_Witness ==
    /\ last.op = "sync_to_inventory"
    /\ last.outcome.errors = <<0>>
    /\ ~last.outcome.success
    /\ last.outcome.records_processed = 1
    /\ \E d \in WrittenDays :
           /\ d > 0
           /\ wb.sheets[get_sheet_name(last.month)]
                  [<<PHONE_DATA_START_ROW,
                     day_to_col(get_layout(last.month), d).col>>] = Num(1)

(***************************************************************************)
(* reader.py: _to_float and _to_int on any cell value.                     *)
(***************************************************************************)
\* integers of a cell lie in -MaxCellNumber .. MaxCellNumber, finite floats
\* in the tenths of that range
MaxCellNumber == 12

\* a float: finite with its value in tenths, or infinite, or not a number
Finite(n) == [cls |-> "finite", n |-> n]
PosInf == [cls |-> "inf", n |-> 0]
NegInf == [cls |-> "-inf", n |-> 0]
NaN == [cls |-> "nan", n |-> 0]

\* the values a cell can hand to the converters
PyNone == [t |-> "NoneType"]
PyInt(v) == [t |-> "int", v |-> v]
PyFloat(f) == [t |-> "float", f |-> f]
PyStr(x) == [t |-> "str", s |-> x]
PyBool(b) == [t |-> "bool", v |-> IF b THEN 1 ELSE 0]
PyDate == [t |-> "datetime"]

NumericTexts ==
    {<<"1", "2">>,
     <<" ", "7", " ">>,
     <<"1", ".", "5">>,
     <<"-", "3">>,
     <<"+", "2">>,
     <<".", "5">>,
     <<"5", ".">>,
     <<"i", "n", "f">>,
     <<"-", "i", "n", "f">>,
     <<"I", "n", "f", "i", "n", "i", "t", "y">>,
     <<"n", "a", "n">>,
     <<"N", "a", "N">>,
     <<"a", "b", "c">>,
     <<>>,
     <<" ", " ">>,
     <<"1", ".", "2", ".", "3">>,
     <<"-">>,
     <<"1", " ", "2">>,
     <<"7", "x">>}
CellValues ==
    {PyNone, PyDate, PyBool(TRUE), PyBool(FALSE)}
        \cup {PyInt(v) : v \in -MaxCellNumber .. MaxCellNumber}
        \cup {PyFloat(Finite(n)) : n \in -MaxCellNumber .. MaxCellNumber}
        \cup {PyFloat(PosInf), PyFloat(NegInf), PyFloat(NaN)}
        \cup {PyStr(x) : x \in NumericTexts}

IsDecimalDigit(c) == \E i \in 1 .. 10 : DecimalDigits[i] = c
DigitValue(c) == (CHOOSE i \in 1 .. 10 : DecimalDigits[i] = c) - 1
RECURSIVE DecimalValue(_)
DecimalValue(ds) ==
    IF ds = <<>> THEN 0
    ELSE 10 * DecimalValue(SubSeq(ds, 1, Len(ds) - 1)) + DigitValue(ds[Len(ds)])
AllDigits(ds) == \A i \in 1 .. Len(ds) : IsDecimalDigit(ds[i])

Returned(v) == [exc |-> "none", v |-> v]
Thrown(e) == [exc |-> e, v |-> 0]

\* float(text) without its sign: "inf", "infinity", "nan" in any case, or
\* digits with at most one point and at least one digit; the value is kept
\* to the tenth
UnsignedFloat(body) ==
    LET low == StrLower(body)
        dots == {i \in 1 .. Len(body) : body[i] = "."}
    IN  IF low \in {<<"i", "n", "f">>,
                    <<"i", "n", "f", "i", "n", "i", "t", "y">>}
        THEN Returned(PosInf)
        ELSE IF low = <<"n", "a", "n">> THEN Returned(NaN)
        ELSE IF dots = {}
        THEN IF body # <<>> /\ AllDigits(body)
             THEN Returned(Finite(10 * DecimalValue(body)))
             ELSE Thrown("ValueError")
        ELSE IF Cardinality(dots) > 1 THEN Thrown("ValueError")
        ELSE LET d == CHOOSE i \in dots : TRUE
                 whole == SubSeq(body, 1, d - 1)
                 frac == SubSeq(body, d + 1, Len(body))
             IN  IF AllDigits(whole) /\ AllDigits(frac)
                        /\ Len(whole) + Len(frac) > 0
                 THEN Returned(Finite(10 * DecimalValue(whole)
                          + (IF frac = <<>> THEN 0 ELSE DigitValue(frac[1]))))
                 ELSE Thrown("ValueError")

Negated(f) ==
    IF f.cls = "finite" THEN Finite(-f.n)
    ELSE IF f.cls = "inf" THEN NegInf
    ELSE IF f.cls = "-inf" THEN PosInf
    ELSE f

\* float(value): of a number the number, of text the number it spells, a
\* ValueError for other text, a TypeError for a value of any other type
PyFloatOf(value) ==
    IF value.t \in {"int", "bool"} THEN Returned(Finite(10 * value.v))
    ELSE IF value.t = "float" THEN Returned(value.f)
    ELSE IF value.t = "str"
    THEN LET x == StrStrip(value.s)
         IN  IF x # <<>> /\ Head(x) = "-"
             THEN LET r == UnsignedFloat(Tail(x))
                  IN  IF r.exc = "none" THEN Returned(Negated(r.v)) ELSE r
             ELSE IF x # <<>> /\ Head(x) = "+" THEN UnsignedFloat(Tail(x))
             ELSE UnsignedFloat(x)
    ELSE Thrown("TypeError")

\* int(f) of a float: the value cut towards zero, an OverflowError for an
\* infinite float, a ValueError for a float that is not a number
PyIntOf(f) ==
    IF f.cls = "finite"
    THEN Returned(IF f.n >= 0 THEN f.n \div 10 ELSE -((-f.n) \div 10))
    ELSE IF f.cls = "nan" THEN Thrown("ValueError")
    ELSE Thrown("OverflowError")

\* "except (ValueError, TypeError): return default"
Caught == {"ValueError", "TypeError"}

\* reader._to_float
ToFloat(value, default) ==
    IF value = PyNone THEN [raised |-> FALSE, exc |-> "none", v |-> default]
    ELSE LET r == PyFloatOf(value)
         IN  IF r.exc = "none"
             THEN [raised |-> FALSE, exc |-> "none", v |-> r.v]
             ELSE IF r.exc \in Caught
             THEN [raised |-> FALSE, exc |-> "none", v |-> default]
             ELSE [raised |-> TRUE, exc |-> r.exc, v |-> default]

\* reader._to_int
ToInt(value, default) ==
    IF value = PyNone THEN [raised |-> FALSE, exc |-> "none", v |-> default]
    ELSE LET f == PyFloatOf(value)
             r == IF f.exc = "none" THEN PyIntOf(f.v) ELSE f
         IN  IF r.exc = "none"
             THEN [raised |-> FALSE, exc |-> "none", v |-> r.v]
             ELSE IF r.exc \in Caught
             THEN [raised |-> FALSE, exc |-> "none", v |-> default]
             ELSE [raised |-> TRUE, exc |-> r.exc, v |-> default]

CallToFloat(value) ==
    /\ call' = [fn |-> "_to_float", value |-> value,
                out |-> ToFloat(value, Finite(0))]
    /\ UNCHANGED <<sizeA, sizeB>>
    /\ UNCHANGED fileVars

CallToInt(value) ==
    /\ call' = [fn |-> "_to_int", value |-> value, out |-> ToInt(value, 0)]
    /\ UNCHANGED <<sizeA, sizeB>>
    /\ UNCHANGED fileVars

NextConvert ==
    \/ \E value \in CellValues : CallToFloat(value)
    \/ \E value \in CellValues : CallToInt(value)

\* the statement as the specification has it: _to_int and _to_float raise
\* for no cell value
C24_ConvertersNeverRaise ==
    call.fn \in {"_to_int", "_to_float"} => ~call.out.raised

(***************************************************************************)
(* import_invoice: the discount and the total of a sale.                   *)
(* Discounts are counted in thousandths: Milli is the number 1.            *)
(***************************************************************************)
Milli == 1000
\* a discount of 100 percent
FullPercent == 100

\* the discount cell of a sale of percent percent: the fraction, as
\* export_invoice writes it ("sale.discount / 100"), or the percentage
DiscountCell(percent, form) ==
    IF form = "fraction" THEN (percent * Milli) \div 100 ELSE percent * Milli

\* "raw_discount * 100 if 0 < raw_discount < 1 else raw_discount"
DiscountPct(raw_discount) ==
    IF 0 < raw_discount /\ raw_discount < Milli THEN raw_discount * 100
    ELSE raw_discount

\* the total of the file, or when the file has none and quantity and price
\* are not zero, qty * unit_price * (1 - discount_pct / 100); the total is
\* counted in units of 1 / (100 * Milli)
SaleTotal(sd) ==
    IF sd.total = 0 /\ sd.qty # 0 /\ sd.unit_price # 0
    THEN sd.qty * sd.unit_price * (100 * Milli - DiscountPct(sd.discount))
    ELSE sd.total * 100 * Milli

\* the sale rows of a file: every discount from 0 to 100 percent in both
\* forms, with and without quantity, price and total
DiscountedSales ==
    {[percent |-> pc, form |-> f, discount |-> DiscountCell(pc, f),
      qty |-> q, unit_price |-> u, total |-> t] :
         pc \in 0 .. FullPercent, f \in {"fraction", "percentage"},
         q \in {0, 4}, u \in {0, 500}, t \in {0, 1900}}

\* the Sale that import_invoice makes of a sale row
ImportDiscountedSale(sd) ==
    /\ call' = [fn |-> "import_invoice", sd |-> sd,
                sale |-> [quantity |-> sd.qty, unit_price |-> sd.unit_price,
                          discount |-> DiscountPct(sd.discount),
                          total |-> SaleTotal(sd)]]
    /\ UNCHANGED <<sizeA, sizeB>>
    /\ UNCHANGED fileVars

NextDiscount == \E sd \in DiscountedSales : ImportDiscountedSale(sd)

\* the statement as the specification has it: the stored discount of every
\* sale is its percentage, whichever form the file has it in, and a sale
\* without a total in the file gets the total
\* qty * unit price * (1 - percentage / 100)
C23_DiscountIsPercentage ==
    call.fn = "import_invoice" =>
        /\ call.sale.discount = call.sd.percent * Milli
        /\ (call.sd.total = 0 /\ call.sd.qty # 0 /\ call.sd.unit_price # 0) =>
               call.sale.total
                   = call.sd.qty * call.sd.unit_price
                         * (100 * Milli - call.sd.percent * Milli)

(***************************************************************************)
(* reader.py, excel/sync.py: the format of an invoice file.                *)
(***************************************************************************)
INVOICE_OLD_MUKURU_SHEET == "Mukuru"
INVOICE_LOSS_SHEET == "Loss"
INVOICE_STATS_SHEET == "Statistic"

\* the sheets an uploaded file can have
UploadSheets ==
    {INVOICE_SALES_SHEET, INVOICE_PAYMENTS_SHEET, INVOICE_OLD_CASH_SHEET,
     INVOICE_OLD_MUKURU_SHEET, INVOICE_LOSS_SHEET, INVOICE_STATS_SHEET,
     "Sheet1"}

\* a detection that looks for the old sheets first
detect_old_first(names) ==
    IF INVOICE_OLD_CASH_SHEET \in names \/ INVOICE_OLD_MUKURU_SHEET \in names
    THEN [raised |-> FALSE, fmt |-> "old"]
    ELSE IF INVOICE_SALES_SHEET \in names
    THEN [raised |-> FALSE, fmt |-> "new"]
    ELSE [raised |-> TRUE, fmt |-> "none"]

\* ExcelReader.detect_invoice_format on the sheet names of the file
detect_invoice_format(names) ==
    IF INVOICE_SALES_SHEET \in names THEN [raised |-> FALSE, fmt |-> "new"]
    ELSE IF INVOICE_OLD_CASH_SHEET \in names
                \/ INVOICE_OLD_MUKURU_SHEET \in names
    THEN [raised |-> FALSE, fmt |-> "old"]
    ELSE [raised |-> TRUE, fmt |-> "none"]

\* the sheet a reader opens with wb[...]; the readers of the old format
\* look for their sheets and open none that is missing
SheetOpenedBy(reader) ==
    IF reader = "read_invoice_sales" THEN {INVOICE_SALES_SHEET}
    ELSE IF reader = "read_invoice_payments" THEN {INVOICE_PAYMENTS_SHEET}
    ELSE IF reader = "read_invoice_losses" THEN {INVOICE_LOSS_SHEET}
    ELSE IF reader = "read_invoice_statistics" THEN {INVOICE_STATS_SHEET}
    ELSE {}

\* the readers called one after the other; a reader whose sheet is missing
\* raises and ends the run
RECURSIVE RunReaders(_, _, _)
RunReaders(names, readers, done) ==
    IF readers = <<>> THEN [raised |-> FALSE, reads |-> done]
    ELSE IF SheetOpenedBy(Head(readers)) \subseteq names
    THEN RunReaders(names, Tail(readers), Append(done, Head(readers)))
    ELSE [raised |-> TRUE, reads |-> Append(done, Head(readers))]

\* SyncManager.import_from_invoice: the readers it calls, in order
import_from_invoice(names) ==
    LET d == detect_invoice_format(names)
    IN  IF d.raised THEN [raised |-> TRUE, fmt |-> "none", reads |-> <<>>]
        ELSE LET r == RunReaders(names,
                          (IF d.fmt = "old"
                           THEN <<"read_invoice_sales_old",
                                  "read_invoice_payments_old">>
                           ELSE <<"read_invoice_sales",
                                  "read_invoice_payments">>)
                              \o <<"read_invoice_losses",
                                   "read_invoice_statistics">>,
                          <<>>)
             IN  [raised |-> r.raised, fmt |-> d.fmt, reads |-> r.reads]

DetectInvoiceFormat(names) ==
    /\ call' = [fn |-> "detect_invoice_format", names |-> names,
                out |-> detect_invoice_format(names)]
    /\ UNCHANGED <<sizeA, sizeB>>
    /\ UNCHANGED fileVars

ImportFromInvoice(names) ==
    /\ call' = [fn |-> "import_from_invoice", names |-> names,
                out |-> import_from_invoice(names)]
    /\ UNCHANGED <<sizeA, sizeB>>
    /\ UNCHANGED fileVars

NextFormat ==
    \/ \E names \in SUBSET UploadSheets : DetectInvoiceFormat(names)
    \/ \E names \in SUBSET UploadSheets : ImportFromInvoice(names)

NewReaders == {"read_invoice_sales", "read_invoice_payments"}
OldReaders == {"read_invoice_sales_old", "read_invoice_payments_old"}
ReadersCalled == {call.out.reads[i] : i \in DOMAIN call.out.reads}

\* the format the sheet names stand for
FormatOf(names) ==
    IF "Sales Record" \in names THEN "new"
    ELSE IF "Cash" \in names \/ "Mukuru" \in names THEN "old"
    ELSE "none"

\* C21: detect_invoice_format returns "new" whenever the Sales Record sheet
\* is present, "old" when it is absent and Cash or Mukuru is present, and
\* raises when none of the three is present; import_from_invoice reads
\* nothing when the detection raises, and otherwise calls the sales reader
\* and then the payments reader of the detected format and no reader of the
\* other format
C21_FormatDecidesReaders ==
    /\ call.fn = "detect_invoice_format" =>
           /\ call.out.raised <=> FormatOf(call.names) = "none"
           /\ call.out.fmt = FormatOf(call.names)
    /\ call.fn = "import_from_invoice" =>
           /\ FormatOf(call.names) = "none" =>
                  call.out.raised /\ call.out.reads = <<>>
           /\ FormatOf(call.names) = "new" =>
                  /\ SubSeq(call.out.reads, 1, 2)
                         = <<"read_invoice_sales", "read_invoice_payments">>
                  /\ ReadersCalled \cap OldReaders = {}
           /\ FormatOf(call.names) = "old" =>
                  /\ SubSeq(call.out.reads, 1, 2)
                         = <<"read_invoice_sales_old",
                             "read_invoice_payments_old">>
                  /\ ReadersCalled \cap NewReaders = {}

\* an import of a file that has the Sales Record sheet and the Cash sheet
C21_Witness ==
    /\ call.fn = "import_from_invoice"
    /\ {"Sales Record", "Cash", "Mukuru"} \subseteq call.names
    /\ call.out.fmt = "new"
    /\ "read_invoice_payments" \in ReadersCalled

(***************************************************************************)
(* reader.py: the sales and the payments of an old-format sheet.           *)
(* A sheet is the sequence of its rows; a row holds the cells of the       *)
(* columns 1, 2, 4 and 5.                                                  *)
(***************************************************************************)
\* data rows of a sheet
MaxSheetRows == 3

OLD_CASH_DATE_COL == 1
OLD_CASH_SIZE_COL == 2
OLD_CASH_QTY_COL == 5
OLD_CASH_DATA_START_ROW == 3
OLD_MUKURU_DATE_COL == 1
OLD_MUKURU_SIZE_COL == 4
OLD_MUKURU_QTY_COL == 5
OLD_MUKURU_DATA_START_ROW == 3
OLD_PAY_DATE_COL == 1
OLD_PAY_AMOUNT_COL == 4

OldRow(c1, c2, c4, c5) == (1 :> c1) @@ (2 :> c2) @@ (4 :> c4) @@ (5 :> c5)
DateLabel == <<"d", "a", "t", "e">>
\* the title row and the header row of the sales section
OldHeaderRows ==
    <<OldRow(Str(<<"S", "a", "l", "e", "s">>), None, None, None),
      OldRow(Str(<<"D", "a", "t", "e">>), Str(<<"S", "i", "z", "e">>), Str(<<"S", "i", "z", "e">>), Str(<<"Q", "t", "y">>))>>
\* rows of the data part: a sale that is also an amount, a sale without an
\* amount, an amount alone, the header of the payment section in three
\* spellings, a summary row and an empty row
OldDataRows ==
    {OldRow(Str(<<"2", "0", "2", "5", ".", "9", ".", "1">>), Str(<<"5">>), Num(7), Num(1)),
     OldRow(Str(<<"2", "0", "2", "5", ".", "9", ".", "1">>), Str(<<"5">>), None, Num(1)),
     OldRow(None, None, Num(7), None),
     OldRow(Str(<<"D", "a", "t", "e">>), Str(<<"S", "i", "z", "e">>), Str(<<"S", "i", "z", "e">>), None),
     OldRow(Str(<<"D", "A", "T", "E">>), None, None, None),
     OldRow(Str(<<" ", "d", "a", "t", "e", " ">>), None, Num(7), Num(1)),
     OldRow(Str(<<"T", "o", "t", "a", "l">>), None, Num(7), Num(1)),
     OldRow(None, None, None, None)}
RECURSIVE OldDataParts(_)
OldDataParts(n) ==
    IF n = 0 THEN {<<>>}
    ELSE LET shorter == OldDataParts(n - 1)
         IN  shorter \cup {Append(rows, r) : rows \in shorter, r \in OldDataRows}
OldSheets == {OldHeaderRows \o rows : rows \in OldDataParts(MaxSheetRows)}

\* ws.cell(row_num, col).value and ws.max_row
OldCell(ws, row_num, col) == ws[row_num][col]
SizeColOf(sheet) ==
    IF sheet = INVOICE_OLD_CASH_SHEET THEN OLD_CASH_SIZE_COL
    ELSE OLD_MUKURU_SIZE_COL
QtyColOf(sheet) ==
    IF sheet = INVOICE_OLD_CASH_SHEET THEN OLD_CASH_QTY_COL
    ELSE OLD_MUKURU_QTY_COL
DateColOf(sheet) ==
    IF sheet = INVOICE_OLD_CASH_SHEET THEN OLD_CASH_DATE_COL
    ELSE OLD_MUKURU_DATE_COL
DataStartRowOf(sheet) ==
    IF sheet = INVOICE_OLD_CASH_SHEET THEN OLD_CASH_DATA_START_ROW
    ELSE OLD_MUKURU_DATA_START_ROW

\* a comparison with the text of the cell as it stands
IsPaymentHeaderUnstripped(date_val) ==
    date_val.k = "str" /\ StrLower(date_val.v) = DateLabel

\* "date_str = _to_str(date_val); date_str and date_str.lower() == 'date'"
IsPaymentHeader(date_val) ==
    LET date_str == _to_str(date_val)
    IN  date_str # <<>> /\ StrLower(date_str) = DateLabel

\* the loop of _read_old_sheet_sales from row_num on
RECURSIVE OldSalesFrom(_, _, _, _)
OldSalesFrom(ws, sheet, row_num, sales) ==
    IF row_num > Len(ws)
    THEN [sales |-> sales, payment_start |-> Len(ws) + 1]
    ELSE LET qty_val == OldCell(ws, row_num, QtyColOf(sheet))
             size_val == _to_str(OldCell(ws, row_num, SizeColOf(sheet)))
             date_val == OldCell(ws, row_num, DateColOf(sheet))
             date_str == _to_str(date_val)
             quantity == _to_int(qty_val)
         IN  IF IsPaymentHeader(date_val)
             THEN [sales |-> sales, payment_start |-> row_num + 1]
             ELSE IF \/ qty_val = None /\ size_val = <<>> /\ date_val = None
                     \/ StrLower(size_val) \in {TotalLabel, <<"t", "o", "t", "a", "l", " ", "q", "u", "a", "n", "t", "i", "t", "y">>}
                     \/ StrLower(date_str) \in
                            {TotalLabel, <<"t", "o", "t", "a", "l", " ", "q", "u", "a", "n", "t", "i", "t", "y">>,
                             <<"t", "o", "t", "a", "l", " ", "p", "r", "i", "c", "e">>,
                             <<"t", "o", "t", "a", "l", " ", "p", "r", "i", "c", "e", " ", "(", "m", "k", "w", ")">>}
                     \/ size_val = <<>> /\ quantity = 0
             THEN OldSalesFrom(ws, sheet, row_num + 1, sales)
             ELSE OldSalesFrom(ws, sheet, row_num + 1,
                      Append(sales, [row |-> row_num, size |-> size_val,
                                     qty |-> quantity]))

\* ExcelReader._read_old_sheet_sales
_read_old_sheet_sales(ws, sheet) ==
    OldSalesFrom(ws, sheet, DataStartRowOf(sheet), <<>>)

\* the loop of _read_old_sheet_payments from row_num on
RECURSIVE OldPaymentsFrom(_, _, _)
OldPaymentsFrom(ws, row_num, payments) ==
    IF row_num > Len(ws) THEN payments
    ELSE LET amount == OldCell(ws, row_num, OLD_PAY_AMOUNT_COL)
             date_str == _to_str(OldCell(ws, row_num, OLD_PAY_DATE_COL))
         IN  IF \/ amount = None
                \/ StrLower(date_str) \in {TotalLabel, <<"t", "o", "t", "a", "l", "s">>}
                \/ _to_int(amount) <= 0    \* _to_float; amounts are whole
             THEN OldPaymentsFrom(ws, row_num + 1, payments)
             ELSE OldPaymentsFrom(ws, row_num + 1,
                      Append(payments, [row |-> row_num,
                                        amount_mwk |-> _to_int(amount)]))

\* ExcelReader._read_old_sheet_payments
_read_old_sheet_payments(ws, start_row) == OldPaymentsFrom(ws, start_row, <<>>)

\* read_invoice_sales_old and read_invoice_payments_old on one sheet
ReadOldSheet(sheet, ws) ==
    /\ call = NoCall
    /\ call' = [fn |-> "read_old_sheet", sheet |-> sheet, ws |-> ws,
                sales |-> _read_old_sheet_sales(ws, sheet).sales,
                payments |->
                    _read_old_sheet_payments(
                        ws, _read_old_sheet_sales(ws, sheet).payment_start)]
    /\ UNCHANGED <<sizeA, sizeB>>
    /\ UNCHANGED fileVars

NextOldSheet ==
    \E sheet \in {INVOICE_OLD_CASH_SHEET, INVOICE_OLD_MUKURU_SHEET},
       ws \in OldSheets : ReadOldSheet(sheet, ws)

SaleRowsRead == {call.sales[i].row : i \in DOMAIN call.sales}
PaymentRowsRead == {call.payments[i].row : i \in DOMAIN call.payments}
DataRowsOfCall == 3 .. Len(call.ws)

\* the rows of the data part whose first column is "Date" in any case
LiteralHeaders ==
    {r \in DataRowsOfCall :
        call.ws[r][1].k = "str" /\ StrLower(call.ws[r][1].v) = <<"d", "a", "t", "e">>}
\* the rows whose first column is "Date" in any case once the white space
\* around it is removed
StrippedHeaders ==
    {r \in DataRowsOfCall :
        call.ws[r][1].k = "str"
            /\ StrLower(StrStrip(call.ws[r][1].v)) = <<"d", "a", "t", "e">>}

SplitAt(headers) ==
    /\ SaleRowsRead \cap PaymentRowsRead = {}
    /\ SaleRowsRead \cup PaymentRowsRead \subseteq DataRowsOfCall
    /\ headers = {} => PaymentRowsRead = {}
    /\ headers # {} =>
           /\ \A r \in SaleRowsRead : r < SetMin(headers)
           /\ \A r \in PaymentRowsRead : r > SetMin(headers)

\* the statement as the specification has it: the first row of the data
\* part whose first column is the literal "Date" in any case is the boundary
C22_LiteralDateIsBoundary ==
    call.fn = "read_old_sheet" => SplitAt(LiteralHeaders)

\* C22: the first row at or after the data start row whose first column,
\* with the white space around it removed, is "Date" in any case is the
\* boundary: only rows before it are returned as sales, only rows after it
\* as payments, no row as both, and a sheet without such a row yields no
\* payments
C22_StrippedDateIsBoundary ==
    call.fn = "read_old_sheet" => SplitAt(StrippedHeaders)

\* a sheet with a sale before the payment header and a payment after it
C22_Witness ==
    /\ call.fn = "read_old_sheet"
    /\ StrippedHeaders # {}
    /\ \E r \in SaleRowsRead : r < SetMin(StrippedHeaders)
    /\ \E r \in PaymentRowsRead : r > SetMin(StrippedHeaders)

(***************************************************************************)
(* ensure_month_sheet: the sheet it creates and what it returns.           *)
(***************************************************************************)
\* the sheet ensure_month_sheet copies: month 1, or the first sheet
TemplateOf(file) ==
    IF HasSheet(file, SheetNameOf(kind, 1))
    THEN file.sheets[SheetNameOf(kind, 1)]
    ELSE file.sheets[file.names[1]]

SheetCreated ==
    kind \in Inventory /\ last.op = "ensure_month_sheet" /\ last.created

\* the statement as the specification has it: in the sheet the call has
\* created, the stock and day cells of the data rows are empty and every
\* other cell is the cell of the template
C19_CopyWithEmptyStock ==
    SheetCreated =>
        LET ws == wb.sheets[SheetNameOf(kind, last.month)]
            layout == LayoutOf(kind, last.month)
        IN  \A rc \in ModelCells :
                ws[rc] = IF rc[1] \in DataRowsOf(kind)
                            /\ rc[2] \in WritableCols(layout)
                         THEN None
                         ELSE TemplateOf(wb)[rc]

\* a call of ensure_month_sheet
EnsureStep == OpStep /\ last'.op = "ensure_month_sheet"

EnsureContract ==
    (kind \in Inventory /\ EnsureStep) =>
        LET name == SheetNameOf(kind, last'.month)
        IN  /\ ~last'.raised
            /\ last'.created <=> ~HasSheet(wb, name)
            /\ HasSheet(wb', name)
            /\ HasSheet(wb, name) => wb' = wb /\ ~last'.saved

\* C20: ensure_month_sheet returns true exactly when the workbook had no
\* sheet of the month, and the workbook has the sheet when it returns; when
\* the sheet was there the call returns false and the file is what it was.
C20_CreatedIffAbsent == [][EnsureContract]_vars

\* the second of two calls for month 8: the sheet was there, nothing saved
C20_Witness ==
    /\ kind \in Inventory
    /\ last.op = "ensure_month_sheet" /\ last.month = 8
    /\ ~last.created /\ ~last.saved /\ ~last.raised
    /\ nOps = 2
    /\ wb.names = <<SheetNameOf(kind, 1), SheetNameOf(kind, 8)>>

(***************************************************************************)
(* read_inventory on sheets whose rows are products, blank rows and        *)
(* summary rows.                                                           *)
(***************************************************************************)
\* the header row above both data windows and two rows inside both of them
ReaderRows ==
    {DATA_START_ROW - 1, PHONE_DATA_START_ROW, PHONE_DATA_START_ROW + 1}

\* what the size column of a tyre sheet can hold
TyreSizeCells ==
    {None, Str(<<" ">>), Num(5), Str(<<"5", "R">>),
     Str(<<"T", "o", "t", "a", "l">>),
     Str(<<" ", "T", "O", "T", "A", "L", " ">>),
     Str(<<"T", "o", "t", "a", "l", "s">>),
     Str(<<"T", "o", "t", "a", "l", " ", "T", "y", "r", "e", " ",
           "A", "v", "a", "i", "l", "a", "b", "l", "e">>)}

\* what the brand and the model column of a phone sheet can hold
PhoneBrandCells ==
    {None, Str(<<"a">>),
     Str(<<"T", "O", "T", "A", "L">>),
     Str(<<"G", "r", "a", "n", "d", " ", "T", "o", "t", "a", "l">>),
     Str(<<"7", " ", "d", "a", "y", " ", "R", "e", "t", "u", "r", "n", " ",
           "P", "o", "l", "i", "c", "y">>)}
PhoneModelCells == {None, Str(<<"N", "5">>)}

ReaderSheets(k) ==
    LET first == IF k = "tyre" THEN TyreSizeCells ELSE PhoneBrandCells
        second == IF k = "tyre" THEN {Str(<<"N">>)} ELSE PhoneModelCells
    IN  {[rc \in ReaderRows \X {1, 2} |->
             IF rc[2] = 1 THEN a[rc[1]] ELSE b[rc[1]]] :
            a \in [ReaderRows -> first], b \in [ReaderRows -> second]}

InitReader ==
    /\ kind \in Inventory
    /\ wb \in {[names |-> <<SheetNameOf(kind, 1)>>,
                sheets |-> (SheetNameOf(kind, 1) :> ws),
                stamp |-> 0] : ws \in ReaderSheets(kind)}
    /\ backups = [t \in Clock |-> NoFile]
    /\ now = 0
    /\ last = NoOp
    /\ nOps = 0
    /\ syncLog = <<>>
    /\ db = NoDb

NextReader == \E m \in SampleMonths : ReadInv(m)

\* the stripped text of an identity cell of the sheet that was read
IdentityOf(row, col) ==
    _to_str(CellOf(wb.sheets[SheetNameOf(kind, last.read.month)], row, col))

SameIgnoringCase(a, b) == StrLower(a) = StrLower(b)

\* the identity field of the row is blank or a summary label
BlankOrSummary(row) ==
    IF kind = "tyre"
    THEN \/ IdentityOf(row, INV_SIZE_COL) = <<>>
         \/ SameIgnoringCase(IdentityOf(row, INV_SIZE_COL), TotalLabel)
         \/ SameIgnoringCase(IdentityOf(row, INV_SIZE_COL), TotalAvailableLabel)
    ELSE \/ IdentityOf(row, PHONE_INV_BRAND_COL) = <<>>
         \/ SameIgnoringCase(IdentityOf(row, PHONE_INV_BRAND_COL), TotalLabel)
         \/ SameIgnoringCase(IdentityOf(row, PHONE_INV_BRAND_COL),
                             GrandTotalLabel)

\* the row is no product: for a phone the brand and the model are both
\* blank, or the brand is a summary label or names the return policy
NoProductRow(row) ==
    IF kind = "tyre" THEN BlankOrSummary(row)
    ELSE \/ /\ IdentityOf(row, PHONE_INV_BRAND_COL) = <<>>
            /\ IdentityOf(row, PHONE_INV_MODEL_COL) = <<>>
         \/ SameIgnoringCase(IdentityOf(row, PHONE_INV_BRAND_COL), TotalLabel)
         \/ SameIgnoringCase(IdentityOf(row, PHONE_INV_BRAND_COL),
                             GrandTotalLabel)
         \/ Contains(StrLower(IdentityOf(row, PHONE_INV_BRAND_COL)),
                     ReturnPolicyLabel)

\* the records of the last read that carry the row number
RecordsOf(row) ==
    {i \in 1 .. Len(last.read.rows) : last.read.rows[i].row = row}

ReadReturned == kind \in Inventory /\ last.read.done /\ ~last.read.raised

MaxImports == 2

EmptyDb ==
    [tyres |-> <<>>, periods |-> <<>>, sales |-> <<>>, payments |-> <<>>,
     losses |-> <<>>]

\* Result.scalar_one_or_none over the ids a query selects
scalar_one_or_none(ids) ==
    [raised |-> Cardinality(ids) > 1,
     id |-> IF Cardinality(ids) = 1 THEN CHOOSE i \in ids : TRUE ELSE 0]

UnknownType == <<"U", "n", "k", "n", "o", "w", "n">>

\* td["type"] or "Unknown"
TypeOrUnknown(type_) == IF type_ = <<>> THEN UnknownType ELSE type_

\* the products the second query of the handler selects: tyres by size and
\* type, phones by brand, model and config
SameAttributes(k, tyres, td) ==
    IF k = "tyre"
    THEN {i \in DOMAIN tyres :
             /\ tyres[i].size = td.size
             /\ tyres[i].type = TypeOrUnknown(td.type)}
    ELSE {i \in DOMAIN tyres :
             /\ tyres[i].brand = td.brand
             /\ tyres[i].model = td.model
             /\ tyres[i].config = td.config}

\* the second query of the handler with the brand compared as well
SameAttributesAndBrand(k, tyres, td) ==
    {i \in SameAttributes(k, tyres, td) : tyres[i].brand = td.brand}

\* Tyre(...) / Phone(...) of a row of the file
NewProduct(k, td) ==
    IF k = "tyre"
    THEN [size |-> td.size, type |-> TypeOrUnknown(td.type),
          brand |-> td.brand, excel_row |-> td.row]
    ELSE [brand |-> td.brand, model |-> td.model, config |-> td.config,
          excel_row |-> td.row]

\* the upsert that adds a record without looking for one
InsertPeriod(periods, id, year, month, td) ==
    [raised |-> FALSE,
     periods |-> Append(periods,
         [tyre_id |-> id, year |-> year, month |-> month,
          initial_stock |-> td.initial_stock,
          added_stock |-> td.added_stock])]

\* the upsert of the period record of a product
UpsertPeriod(periods, id, year, month, td) ==
    LET found == scalar_one_or_none(
                     {i \in DOMAIN periods :
                         /\ periods[i].tyre_id = id
                         /\ periods[i].year = year
                         /\ periods[i].month = month})
    IN  IF found.raised THEN [raised |-> TRUE, periods |-> periods]
        ELSE IF found.id = 0
        THEN [raised |-> FALSE,
              periods |-> Append(periods,
                  [tyre_id |-> id, year |-> year, month |-> month,
                   initial_stock |-> td.initial_stock,
                   added_stock |-> td.added_stock])]
        ELSE [raised |-> FALSE,
              periods |-> [periods EXCEPT
                  ![found.id].initial_stock = td.initial_stock,
                  ![found.id].added_stock = td.added_stock]]

\* one turn of the loop of import_inventory: the product by excel_row, then
\* by attributes, then a new one; then the period record
ImportRow(k, d, td, year, month) ==
    LET by_row == scalar_one_or_none(
                      {i \in DOMAIN d.tyres : d.tyres[i].excel_row = td.row})
        by_attrs == scalar_one_or_none(SameAttributes(k, d.tyres, td))
    IN  IF by_row.raised \/ (by_row.id = 0 /\ by_attrs.raised)
        THEN [raised |-> TRUE, db |-> d]
        ELSE LET id == IF by_row.id # 0 THEN by_row.id
                       ELSE IF by_attrs.id # 0 THEN by_attrs.id
                       ELSE Len(d.tyres) + 1
                 tyres == IF id > Len(d.tyres)
                          THEN Append(d.tyres, NewProduct(k, td))
                          ELSE [d.tyres EXCEPT ![id].excel_row = td.row]
                 inv == UpsertPeriod(d.periods, id, year, month, td)
             IN  [raised |-> inv.raised,
                  db |-> [d EXCEPT !.tyres = tyres, !.periods = inv.periods]]

RECURSIVE ImportRows(_, _, _, _, _, _)
ImportRows(k, d, rows, year, month, imported) ==
    IF rows = <<>> THEN [raised |-> FALSE, db |-> d, imported |-> imported]
    ELSE LET r == ImportRow(k, d, Head(rows), year, month)
         IN  IF r.raised
             THEN [raised |-> TRUE, db |-> r.db, imported |-> imported]
             ELSE ImportRows(k, r.db, Tail(rows), year, month, imported + 1)

\* import_inventory / import_phone_inventory on the rows read_inventory
\* returns for the uploaded file; the commit of _log_sync keeps what the
\* loop did before an exception
import_inventory(k, d, rows, year, month) ==
    ImportRows(k, d, rows, year, month, 0)

\* the rows of an uploaded file as read_inventory returns them
ImportRowNumbers == {PHONE_DATA_START_ROW, PHONE_DATA_START_ROW + 1}
TyreRow(row, type_, brand, added_stock) ==
    [row |-> row, size |-> <<"5">>, type |-> type_, brand |-> brand,
     initial_stock |-> 1, added_stock |-> added_stock]
PhoneRow(row, brand, config, added_stock) ==
    [row |-> row, brand |-> brand, model |-> <<"N">>, config |-> config,
     initial_stock |-> 1, added_stock |-> added_stock]
\* two brands of one size and type, and a tyre whose type cell is blank
TyreRows ==
    {TyreRow(PHONE_DATA_START_ROW, <<"N">>, <<"a">>, 0),
     TyreRow(PHONE_DATA_START_ROW, <<"N">>, <<"b">>, 1),
     TyreRow(PHONE_DATA_START_ROW + 1, <<"N">>, <<"a">>, 0),
     TyreRow(PHONE_DATA_START_ROW + 1, <<"N">>, <<"b">>, 1),
     TyreRow(PHONE_DATA_START_ROW + 1, <<>>, <<"a">>, 0)}
\* two brands of one model, one of them in two configurations
PhoneRows ==
    {PhoneRow(PHONE_DATA_START_ROW, <<"a">>, <<>>, 0),
     PhoneRow(PHONE_DATA_START_ROW, <<"b">>, <<"5">>, 1),
     PhoneRow(PHONE_DATA_START_ROW + 1, <<"a">>, <<>>, 1),
     PhoneRow(PHONE_DATA_START_ROW + 1, <<"b">>, <<"5">>, 0),
     PhoneRow(PHONE_DATA_START_ROW + 1, <<"a">>, <<"5">>, 0)}
ProductRows(k) == IF k = "tyre" THEN TyreRows ELSE PhoneRows

\* read_inventory returns the rows in the order of the sheet, each once
UploadedFiles(k) ==
    {<<>>} \cup {<<a>> : a \in ProductRows(k)}
           \cup {<<a, b>> : a \in {r \in ProductRows(k) :
                                      r.row = PHONE_DATA_START_ROW},
                            b \in {r \in ProductRows(k) :
                                      r.row = PHONE_DATA_START_ROW + 1}}

ImportPeriods ==
    {[year |-> 2025, month |-> 1], [year |-> 2026, month |-> 1],
     [year |-> 2026, month |-> 8]}

ImportInventory(rows, year, month) ==
    /\ kind \in Inventory
    /\ nOps < MaxImports
    /\ nOps' = nOps + 1
    /\ LET r == import_inventory(kind, db, rows, year, month)
       IN  /\ db' = r.db
           /\ last' = [NoOp EXCEPT !.op = "import_inventory",
                                   !.year = year, !.month = month,
                                   !.file = rows, !.before = db,
                                   !.raised = r.raised,
                                   !.records = r.imported]
           /\ syncLog' = Append(syncLog,
                  IF r.raised
                  THEN [direction |-> "import", status |-> "failed",
                        records |-> 0, file_hash |-> <<>>]
                  ELSE [direction |-> "import", status |-> "success",
                        records |-> r.imported,
                        file_hash |-> <<"sha256", rows>>])
    /\ UNCHANGED <<kind, wb, backups, now>>
    /\ UNCHANGED pureVars

NextImport ==
    \E rows \in UploadedFiles(kind), p \in ImportPeriods :
        ImportInventory(rows, p.year, p.month)

InitImporter ==
    /\ kind \in Inventory
    /\ InitWorkbook
    /\ db = EmptyDb

\* the identity attributes of a row of the file
IdentityAttrs(k, td) ==
    IF k = "tyre" THEN <<td.size, td.type, td.brand>>
    ELSE <<td.brand, td.model, td.config>>

DistinctIdentities(k, rows) ==
    \A i, j \in DOMAIN rows :
        i # j => IdentityAttrs(k, rows[i]) # IdentityAttrs(k, rows[j])

ImportReturned ==
    kind \in Inventory /\ last.op = "import_inventory" /\ ~last.raised

\* the products that carry the row number of a row of the file
BoundTo(td) == {id \in DOMAIN db.tyres : db.tyres[id].excel_row = td.row}

\* the rows of the file that match no product the database held before the
\* import, neither by row number nor by attributes
Unmatched ==
    {i \in DOMAIN last.file :
        /\ \A id \in DOMAIN last.before.tyres :
               last.before.tyres[id].excel_row # last.file[i].row
        /\ SameAttributes(kind, last.before.tyres, last.file[i]) = {}}

\* the statement as the specification has it: after the import of a file
\* whose rows have pairwise distinct identity attributes every row has its
\* own product, carrying the row's number; a row that matches no product
\* creates one; no product is deleted
C15_OwnEntityPerRow ==
    (ImportReturned /\ DistinctIdentities(kind, last.file)) =>
        /\ \A i \in DOMAIN last.file :
               Cardinality(BoundTo(last.file[i])) = 1
        /\ Len(db.tyres) >= Len(last.before.tyres) + Cardinality(Unmatched)

SamePeriod(a, b) ==
    a.tyre_id = b.tyre_id /\ a.year = b.year /\ a.month = b.month

\* C16: the database never holds two period records of one product, year
\* and month; an import leaves every record it found in its place, and the
\* one record of the product of the last row of the file, for the year and
\* month of the import, holds the stock of that row.
C16_OnePeriodRecord ==
    /\ \A i, j \in DOMAIN db.periods :
           SamePeriod(db.periods[i], db.periods[j]) => i = j
    /\ ImportReturned =>
           /\ \A i \in DOMAIN last.before.periods :
                  SamePeriod(db.periods[i], last.before.periods[i])
           /\ last.file # <<>> =>
                  LET td == last.file[Len(last.file)]
                  IN  \A id \in BoundTo(td) :
                          \E i \in DOMAIN db.periods :
                              /\ db.periods[i].tyre_id = id
                              /\ db.periods[i].year = last.year
                              /\ db.periods[i].month = last.month
                              /\ db.periods[i].initial_stock = td.initial_stock
                              /\ db.periods[i].added_stock = td.added_stock

\* an import whose two rows resolved to one product, and a record of an
\* earlier import overwritten with the stock of the second row
C16_Witness ==
    /\ ImportReturned
    /\ Len(last.file) = 2
    /\ Len(db.tyres) = 1
    /\ Len(last.before.periods) = 1 /\ Len(db.periods) = 1
    /\ last.file[1].added_stock # last.file[2].added_stock
    /\ db.periods[1].added_stock = last.file[2].added_stock
    /\ db.periods[1].added_stock # last.before.periods[1].added_stock

(***************************************************************************)
(* routers/sync.py: import_invoice.                                        *)
(*                                                                         *)
(* The uploaded invoice file is the lists its readers return: the rows of  *)
(* the sales, the payment and the loss sheet.  A date is <<year, month,    *)
(* day>>; a cell without a date reads as NoDate, a blank text as <<>>.     *)
(***************************************************************************)
NoDate == <<>>

\* re.sub(r"[^0-9]", "", s)
RECURSIVE DigitsOf(_)
DigitsOf(s) ==
    IF s = <<>> THEN <<>>
    ELSE IF \E i \in DOMAIN DecimalDigits : DecimalDigits[i] = Head(s)
    THEN <<Head(s)>> \o DigitsOf(Tail(s))
    ELSE DigitsOf(Tail(s))

\* _parse_tyre_size: the suffix and the speed letter it takes out are no
\* digits, so width, aspect and rim are cut from the digits of the text
_parse_tyre_size(raw) ==
    LET digits == DigitsOf(StrStrip(raw))
    IN  IF Len(digits) = 7
        THEN [found |-> TRUE, width |-> SubSeq(digits, 1, 3),
              aspect |-> SubSeq(digits, 4, 5), rim |-> SubSeq(digits, 6, 7)]
        ELSE IF Len(digits) = 5
        THEN [found |-> TRUE, width |-> SubSeq(digits, 1, 3),
              aspect |-> <<>>, rim |-> SubSeq(digits, 4, 5)]
        ELSE [found |-> FALSE, width |-> <<>>, aspect |-> <<>>, rim |-> <<>>]

_size_match_key(parsed) == <<parsed.width, parsed.aspect, parsed.rim>>

SecondWord == <<"s", "e", "c", "o", "n", "d">>
BrandlessWord == <<"b", "r", "a", "n", "d", "l", "e", "s", "s">>

_classify_tyre(type_str, brand) ==
    LET t == StrLower(StrStrip(type_str))
    IN  IF Contains(t, SecondWord) THEN "second_hand"
        ELSE IF Contains(t, BrandlessWord) THEN "brandless_new"
        ELSE IF StrStrip(brand) # <<>> THEN "branded_new"
        ELSE "brandless_new"

\* size_map.get(key) of _build_size_map: the ids of the tyres of the key,
\* in the order of the table
RECURSIVE CandidatesOf(_, _, _)
CandidatesOf(tyres, key, id) ==
    IF id > Len(tyres) THEN <<>>
    ELSE LET parsed == _parse_tyre_size(tyres[id].size)
             rest == CandidatesOf(tyres, key, id + 1)
         IN  IF parsed.found /\ _size_match_key(parsed) = key
             THEN <<id>> \o rest ELSE rest

\* _match_tyre_id; 0 is None
_match_tyre_id(tyres, size, type_str, brand) ==
    LET parsed == _parse_tyre_size(size)
        candidates == CandidatesOf(tyres, _size_match_key(parsed), 1)
        of_category ==
            {i \in DOMAIN candidates :
                tyres[candidates[i]].category = _classify_tyre(type_str, brand)}
    IN  IF ~parsed.found \/ candidates = <<>> THEN 0
        ELSE IF Len(candidates) = 1 THEN candidates[1]
        ELSE IF (type_str # <<>> \/ brand # <<>>) /\ of_category # {}
        THEN candidates[SetMin(of_category)]
        ELSE candidates[1]

\* "sd.get("date") or datetime.date(year, month, 1)"
DateOr(date, year, month) == IF date = NoDate THEN <<year, month, 1>> ELSE date

NoOutcome ==
    [sales_imported |-> 0, payments_imported |-> 0, losses_imported |-> 0,
     sales_duplicates_skipped |-> 0, payments_duplicates_skipped |-> 0,
     skipped_sizes |-> <<>>]

\* the loop over the sales rows; acc is [raised, db, outcome]
RECURSIVE ImportSales(_, _, _, _)
ImportSales(acc, rows, year, month) ==
    IF rows = <<>> \/ acc.raised THEN acc
    ELSE LET sd == Head(rows)
             raw_size == StrStrip(sd.size)
             tyre_id == _match_tyre_id(acc.db.tyres, raw_size, sd.type, sd.brand)
             sale_date == DateOr(sd.date, year, month)
             dup == scalar_one_or_none(
                        {i \in DOMAIN acc.db.sales :
                            /\ acc.db.sales[i].sale_date = sale_date
                            /\ acc.db.sales[i].tyre_id = tyre_id
                            /\ acc.db.sales[i].quantity = sd.qty
                            /\ acc.db.sales[i].unit_price = sd.unit_price})
             next ==
                 IF raw_size = <<>> THEN acc
                 ELSE IF tyre_id = 0
                 THEN [acc EXCEPT !.outcome.skipped_sizes = Append(@, raw_size)]
                 ELSE IF dup.raised THEN [acc EXCEPT !.raised = TRUE]
                 ELSE IF dup.id # 0
                 THEN [acc EXCEPT !.outcome.sales_duplicates_skipped = @ + 1]
                 ELSE [acc EXCEPT
                          !.db.sales = Append(@,
                              [sale_date |-> sale_date, tyre_id |-> tyre_id,
                               quantity |-> sd.qty,
                               unit_price |-> sd.unit_price]),
                          !.outcome.sales_imported = @ + 1]
         IN  ImportSales(next, Tail(rows), year, month)

\* the loop over the payment rows
RECURSIVE ImportPayments(_, _, _, _)
ImportPayments(acc, rows, year, month) ==
    IF rows = <<>> \/ acc.raised THEN acc
    ELSE LET pd_item == Head(rows)
             pay_date == DateOr(pd_item.date, year, month)
             customer == IF pd_item.customer = <<>> THEN UnknownType
                         ELSE pd_item.customer
             dup == scalar_one_or_none(
                        {i \in DOMAIN acc.db.payments :
                            /\ acc.db.payments[i].payment_date = pay_date
                            /\ acc.db.payments[i].customer = customer
                            /\ acc.db.payments[i].amount_mwk
                                   = pd_item.amount_mwk})
             next ==
                 IF dup.raised THEN [acc EXCEPT !.raised = TRUE]
                 ELSE IF dup.id # 0
                 THEN [acc EXCEPT !.outcome.payments_duplicates_skipped = @ + 1]
                 ELSE [acc EXCEPT
                          !.db.payments = Append(@,
                              [payment_date |-> pay_date, customer |-> customer,
                               amount_mwk |-> pd_item.amount_mwk]),
                          !.outcome.payments_imported = @ + 1]
         IN  ImportPayments(next, Tail(rows), year, month)

\* the loop over the loss rows
RECURSIVE ImportLosses(_, _, _, _)
ImportLosses(acc, rows, year, month) ==
    IF rows = <<>> \/ acc.raised THEN acc
    ELSE LET ld == Head(rows)
             raw_config == StrStrip(ld.config)
             tyre_id == _match_tyre_id(acc.db.tyres, raw_config, ld.model,
                                       ld.brand)
             next ==
                 IF raw_config = <<>> \/ tyre_id = 0 THEN acc
                 ELSE [acc EXCEPT
                          !.db.losses = Append(@,
                              [loss_date |-> DateOr(ld.date, year, month),
                               tyre_id |-> tyre_id, quantity |-> ld.qty]),
                          !.outcome.losses_imported = @ + 1]
         IN  ImportLosses(next, Tail(rows), year, month)

\* import_invoice: the readers raise when a sheet is missing, before the
\* database is touched; an exception of a loop leaves what was added so
\* far to the commit of _log_sync
import_invoice(d, file, year, month) ==
    IF ~file.readable
    THEN [raised |-> TRUE, db |-> d, outcome |-> NoOutcome]
    ELSE ImportLosses(
             ImportPayments(
                 ImportSales([raised |-> FALSE, db |-> d, outcome |-> NoOutcome],
                             file.sales, year, month),
                 file.payments, year, month),
             file.losses, year, month)

\* a size of width and rim, as the sheets of the shop and as people write it
Size15512 == <<"1", "5", "5", "1", "2">>
Size155R12 == <<"1", "5", "5", "/", "R", "1", "2">>
SizeUnknown == <<"9">>
SampleDate == <<2026, 1, 31>>

\* a branded and a second-hand tyre of one size
InvoiceTyres ==
    <<[size |-> Size15512, type |-> <<"N">>, brand |-> <<"a">>,
       category |-> "branded_new", excel_row |-> PHONE_DATA_START_ROW],
      [size |-> Size15512, type |-> SecondWord, brand |-> <<>>,
       category |-> "second_hand", excel_row |-> PHONE_DATA_START_ROW + 1]>>

SaleRow(date, size, type_) ==
    [date |-> date, size |-> size, type |-> type_, brand |-> <<>>,
     qty |-> 1, unit_price |-> 10]
PaymentRow(date, customer) ==
    [date |-> date, customer |-> customer, amount_mwk |-> 5]
LossRow(date, config) ==
    [date |-> date, config |-> config, model |-> <<>>, brand |-> <<>>,
     qty |-> 1]
InvoiceFile(sales, payments, losses) ==
    [readable |-> TRUE, sales |-> sales, payments |-> payments,
     losses |-> losses]

\* the uploaded files: a file with one row of each kind; one with rows of
\* an unknown size before the others; one without dates; one with each row
\* twice; one for the second-hand tyre; an empty one; one without its
\* sheets
UploadedInvoices ==
    {InvoiceFile(<<>>, <<>>, <<>>),
     InvoiceFile(<<SaleRow(SampleDate, Size155R12, <<>>)>>,
                 <<PaymentRow(SampleDate, <<"c">>)>>,
                 <<LossRow(SampleDate, Size155R12)>>),
     InvoiceFile(<<SaleRow(SampleDate, SizeUnknown, <<>>),
                   SaleRow(SampleDate, Size155R12, <<>>)>>,
                 <<PaymentRow(NoDate, <<>>)>>,
                 <<LossRow(SampleDate, SizeUnknown),
                   LossRow(SampleDate, Size15512)>>),
     InvoiceFile(<<SaleRow(NoDate, Size15512, <<>>)>>, <<>>,
                 <<LossRow(NoDate, <<>>)>>),
     InvoiceFile(<<SaleRow(SampleDate, Size15512, <<>>),
                   SaleRow(SampleDate, Size15512, <<>>)>>,
                 <<PaymentRow(SampleDate, <<"c">>),
                   PaymentRow(SampleDate, <<"c">>)>>,
                 <<>>),
     InvoiceFile(<<SaleRow(SampleDate, Size15512, SecondWord),
                   SaleRow(SampleDate, <<>>, <<>>)>>,
                 <<>>, <<LossRow(SampleDate, SizeUnknown)>>),
     [readable |-> FALSE, sales |-> <<>>, payments |-> <<>>, losses |-> <<>>]}

\* a sale of the first tyre as create_sale stores it
StoredSale ==
    [sale_date |-> SampleDate, tyre_id |-> 1, quantity |-> 1,
     unit_price |-> 10]

ImportInvoice(file, year, month) ==
    /\ kind = "invoice"
    /\ nOps < MaxImports
    /\ nOps' = nOps + 1
    /\ LET r == import_invoice(db, file, year, month)
       IN  /\ db' = r.db
           /\ last' = [NoOp EXCEPT !.op = "import_invoice",
                                   !.year = year, !.month = month,
                                   !.file = file, !.before = db,
                                   !.raised = r.raised,
                                   !.outcome = r.outcome]
           /\ syncLog' = Append(syncLog,
                  IF r.raised
                  THEN [direction |-> "import", status |-> "failed",
                        records |-> 0, file_hash |-> <<>>]
                  ELSE [direction |-> "import", status |-> "success",
                        records |-> r.outcome.sales_imported
                                        + r.outcome.payments_imported
                                        + r.outcome.losses_imported,
                        file_hash |-> <<"sha256", file>>])
    /\ UNCHANGED <<kind, wb, backups, now>>
    /\ UNCHANGED pureVars

NextInvoiceImport ==
    \E file \in UploadedInvoices, p \in {[year |-> 2026, month |-> 1],
                                        [year |-> 2026, month |-> 8]} :
        ImportInvoice(file, p.year, p.month)

\* the catalogue, and no sale, one sale or two equal sales made at the
\* counter
InitInvoiceImporter ==
    /\ kind = "invoice"
    /\ InitWorkbook
    /\ \E sales \in {<<>>, <<StoredSale>>, <<StoredSale, StoredSale>>} :
           db = [EmptyDb EXCEPT !.tyres = InvoiceTyres, !.sales = sales]

\* an import of the file, year and month of the successful import before it
ReimportStep ==
    /\ nOps' = nOps + 1
    /\ last.op = "import_invoice" /\ last'.op = "import_invoice"
    /\ last'.file = last.file
    /\ last'.year = last.year /\ last'.month = last.month
    /\ ~last.raised /\ ~last'.raised

ReimportAddsNothing ==
    ReimportStep =>
        /\ db'.sales = db.sales
        /\ db'.payments = db.payments
        /\ db'.losses = db.losses

\* the statement as the specification has it: the second import of an
\* invoice file adds no sale, no payment and no loss record
C17_ReimportAddsNothing == [][ReimportAddsNothing]_vars

\* the sizes the outcome of the last import lists as skipped
SkippedSizes ==
    {last.outcome.skipped_sizes[i] : i \in DOMAIN last.outcome.skipped_sizes}

\* the statement as the specification has it: the import of a file that
\* has its sheets does not abort, and the size of every sale row and of
\* every loss row that matched no tyre is listed in the outcome
C18_SkipsAreReported ==
    (kind = "invoice" /\ last.op = "import_invoice" /\ last.file.readable) =>
        /\ ~last.raised
        /\ \A i \in DOMAIN last.file.sales :
               LET sd == last.file.sales[i]
               IN  (/\ StrStrip(sd.size) # <<>>
                    /\ _match_tyre_id(last.before.tyres, StrStrip(sd.size),
                                      sd.type, sd.brand) = 0)
                       => StrStrip(sd.size) \in SkippedSizes
        /\ \A i \in DOMAIN last.file.losses :
               LET ld == last.file.losses[i]
               IN  (/\ StrStrip(ld.config) # <<>>
                    /\ _match_tyre_id(last.before.tyres, StrStrip(ld.config),
                                      ld.model, ld.brand) = 0)
                       => StrStrip(ld.config) \in SkippedSizes

InitPureIdle == call = NoCall /\ sizeA = <<>> /\ sizeB = <<>>

Init == InitFiles /\ InitPureIdle

\* the writer and the reader on one workbook
Spec == Init /\ [][Next]_vars

InitProtect ==
    kind \in Inventory /\ InitWorkbook /\ db = NoDb /\ InitPureIdle

\* the protected write path
SpecProtect == InitProtect /\ [][NextProtect]_vars

InitExport ==
    kind \in Inventory /\ InitWorkbook /\ InitDb /\ InitPureIdle

\* the inventory export endpoint on an unchanged database
SpecExport == InitExport /\ [][NextExport]_vars

InitMatch ==
    InitMatchCalls /\ sizeA = <<>> /\ sizeB = <<>>
        /\ kind = "tyre" /\ InitWorkbook /\ db = NoDb

\* the fuzzy matchers
SpecMatch == InitMatch /\ [][NextMatch]_vars

InitLayout ==
    InitLayoutCalls /\ sizeA = <<>> /\ sizeB = <<>>
        /\ kind = "tyre" /\ InitWorkbook /\ db = NoDb

\* the layout resolver
SpecLayout == InitLayout /\ [][NextLayout]_vars

InitVariants ==
    InitSizes /\ InitLayoutCalls /\ kind = "tyre" /\ InitWorkbook /\ db = NoDb

InitRead == InitReader /\ InitPureIdle

\* read_inventory on sheets with blank and summary rows
SpecRead == InitRead /\ [][NextReader]_vars

InitImport == InitImporter /\ InitPureIdle

\* the inventory import endpoints on one database
SpecImport == InitImport /\ [][NextImport]_vars

InitInvoiceImport == InitInvoiceImporter /\ InitPureIdle

\* the invoice import endpoint on one database
SpecInvoiceImport == InitInvoiceImport /\ [][NextInvoiceImport]_vars

InitKeys ==
    InitKeyCalls /\ sizeA = <<>> /\ sizeB = <<>>
        /\ kind = "tyre" /\ InitWorkbook /\ db = NoDb

\* the matchers on rows of equal keys
SpecKeys == InitKeys /\ [][NextKeys]_vars

InitSync ==
    kind = "tyre" /\ InitWorkbook /\ db = NoDb /\ InitPureIdle

\* sync_to_inventory on the tyre workbook
SpecSync == InitSync /\ [][NextSync]_vars

InitConvert == InitLayout

\* the cell converters of the reader
SpecConvert == InitConvert /\ [][NextConvert]_vars

InitDiscount == InitLayout

\* the discount and total of imported sales
SpecDiscount == InitDiscount /\ [][NextDiscount]_vars

InitFormat == InitLayout

\* the format detection of uploaded invoice files
SpecFormat == InitFormat /\ [][NextFormat]_vars

InitOldSheet == InitLayout

\* the readers of old-format invoice sheets
SpecOldSheet == InitOldSheet /\ [][NextOldSheet]_vars

InitRequests ==
    /\ InitLoop /\ sizeA = <<>> /\ sizeB = <<>>
    /\ kind = "tyre" /\ InitWorkbook
    /\ db = [tyres |-> DbTyres,
             periods |-> <<[tyre_id |-> 1, month |-> ExportedMonth,
                            initial_stock |-> 1, added_stock |-> 0]>>,
             sales |-> <<>>]

\* two export requests and the requests that change the database
SpecRequests == InitRequests /\ [][NextLoop]_vars

\* the size normalisation
SpecSizes == InitVariants /\ [][NextSizes]_vars

====
